---- MODULE Spec2Model ----
(***************************************************************************)
(* Provider account configuration commands of src/src/commands/providers.ts *)
(* (list, add, remove) and the config patch functions they call.            *)
(* FeishuSpec covers the client cache of extensions/feishu/src/client.ts    *)
(* and the feishu_perm tool of extensions/feishu/src/perm.ts.               *)
(*                                                                          *)
(* Representation.  A JavaScript object is a function whose DOMAIN is the   *)
(* set of its keys, so { ...a, k: v } is Spread(a, k :> v) and a missing    *)
(* key is a key outside the DOMAIN.  A key assigned `undefined` is modelled *)
(* as a missing key: every read in providers.ts (optional chaining, spread, *)
(* truthiness) treats the two alike and the persisted JSON drops the key.   *)
(* A config document maps section names to sections; a section maps field   *)
(* names to values and may hold "accounts", a map from account id to entry. *)
(* Display names and raw provider names are sequences of one-character      *)
(* strings so that trim() and toLowerCase() are computed; every other       *)
(* option value is a string, "" standing for an option that was not given   *)
(* (the code only tests these for truthiness).                              *)
(***************************************************************************)
EXTENDS Integers, Sequences, FiniteSets, TLC

(***************************************************************************)
(* Objects                                                                 *)
(***************************************************************************)
EmptyObj == [k \in {} |-> TRUE]

Spread(a, b) ==
  [k \in (DOMAIN a) \cup (DOMAIN b) |-> IF k \in DOMAIN b THEN b[k] ELSE a[k]]

Without(a, keys) == [k \in (DOMAIN a) \ keys |-> a[k]]

\* value ? { key: value } : {}   for a string option
Opt(key, value) == IF value # "" THEN key :> value ELSE EmptyObj

\* cfg[key] read for spreading: ...cfg.telegram is {} when the section is missing
Section(cfg, key) == IF key \in DOMAIN cfg THEN cfg[key] ELSE EmptyObj

\* base?.accounts is truthy ({} is truthy in JavaScript)
HasAccounts(cfg, key) == key \in DOMAIN cfg /\ "accounts" \in DOMAIN cfg[key]

\* cfg[key]?.accounts read for spreading
Accounts(cfg, key) == IF HasAccounts(cfg, key) THEN cfg[key]["accounts"] ELSE EmptyObj

\* cfg[key]?.accounts?.[accountId] read for spreading
Account(cfg, key, accountId) ==
  IF accountId \in DOMAIN Accounts(cfg, key)
  THEN Accounts(cfg, key)[accountId] ELSE EmptyObj

(***************************************************************************)
(* Strings as character sequences                                          *)
(***************************************************************************)
WhiteSpace == {" ", "\t", "\n"}

UpperChars == <<"A","B","C","D","E","F","G","H","I","J","K","L","M",
                "N","O","P","Q","R","S","T","U","V","W","X","Y","Z">>

LowerChars == <<"a","b","c","d","e","f","g","h","i","j","k","l","m",
                "n","o","p","q","r","s","t","u","v","w","x","y","z">>

LowerChar(c) ==
  IF \E i \in DOMAIN UpperChars : UpperChars[i] = c
  THEN LowerChars[CHOOSE i \in DOMAIN UpperChars : UpperChars[i] = c]
  ELSE c

ToLowerCase(s) == [i \in 1..Len(s) |-> LowerChar(s[i])]

RECURSIVE TrimStart(_)
TrimStart(s) ==
  IF Len(s) > 0 /\ Head(s) \in WhiteSpace THEN TrimStart(Tail(s)) ELSE s

RECURSIVE TrimEnd(_)
TrimEnd(s) ==
  IF Len(s) > 0 /\ s[Len(s)] \in WhiteSpace
  THEN TrimEnd(SubSeq(s, 1, Len(s) - 1)) ELSE s

Trim(s) == TrimEnd(TrimStart(s))

(***************************************************************************)
(* Provider and account identity                                           *)
(***************************************************************************)
CHAT_PROVIDERS == <<"whatsapp", "telegram", "discord", "slack", "signal", "imessage">>

ChatProviders == {CHAT_PROVIDERS[i] : i \in DOMAIN CHAT_PROVIDERS}

\* the characters of each provider kind
ProviderChars ==
  [whatsapp |-> <<"w","h","a","t","s","a","p","p">>,
   telegram |-> <<"t","e","l","e","g","r","a","m">>,
   discord  |-> <<"d","i","s","c","o","r","d">>,
   slack    |-> <<"s","l","a","c","k">>,
   signal   |-> <<"s","i","g","n","a","l">>,
   imessage |-> <<"i","m","e","s","s","a","g","e">>]

NoProvider == "null"

\* the alias is compared before the input is lower-cased
normalizeChatProviderAliasFirst(raw) ==
  LET aliased == IF Trim(raw) = <<"i","m","s","g">> THEN ProviderChars["imessage"]
                 ELSE Trim(raw)
      normalized == ToLowerCase(aliased)
  IN IF Len(normalized) = 0 THEN NoProvider
     ELSE IF \E p \in ChatProviders : ProviderChars[p] = normalized
          THEN CHOOSE p \in ChatProviders : ProviderChars[p] = normalized
          ELSE NoProvider

normalizeChatProvider(raw) ==
  LET trimmed == ToLowerCase(Trim(raw))
      normalized == IF trimmed = <<"i","m","s","g">> THEN ProviderChars["imessage"]
                    ELSE trimmed
  IN IF Len(trimmed) = 0 THEN NoProvider
     ELSE IF \E p \in ChatProviders : ProviderChars[p] = normalized
          THEN CHOOSE p \in ChatProviders : ProviderChars[p] = normalized
          ELSE NoProvider

DEFAULT_ACCOUNT_ID == "default"

\* trims; empty or absent becomes the default account id; other ids pass through
normalizeAccountId(raw) ==
  CASE raw \in {"", " "} -> DEFAULT_ACCOUNT_ID
    [] raw = " work "     -> "work"
    [] OTHER              -> raw

\* Number(text) of a non-empty option; NaN is kept apart from every port number
NaN == -1

Number(text) ==
  CASE text = "8080"   -> 8080
    [] text = " 8181 " -> 8181
    [] OTHER           -> NaN

(***************************************************************************)
(* Config patch functions                                                  *)
(***************************************************************************)
NameOpt(name) == IF Len(name) > 0 THEN "name" :> name ELSE EmptyObj

applyAccountName(cfg, provider, accountIdRaw, name) ==
  LET trimmed == Trim(name)
      accountId == normalizeAccountId(accountIdRaw)
  IN IF Len(trimmed) = 0 THEN cfg
     ELSE IF provider = "whatsapp" THEN
       Spread(cfg, "whatsapp" :>
         Spread(Section(cfg, "whatsapp"), "accounts" :>
           Spread(Accounts(cfg, "whatsapp"), accountId :>
             Spread(Account(cfg, "whatsapp", accountId), "name" :> trimmed))))
     ELSE IF accountId = DEFAULT_ACCOUNT_ID THEN
       Spread(cfg, provider :> Spread(Section(cfg, provider), "name" :> trimmed))
     ELSE
       Spread(cfg, provider :>
         Spread(Section(cfg, provider), "accounts" :>
           Spread(Accounts(cfg, provider), accountId :>
             Spread(Account(cfg, provider, accountId), "name" :> trimmed))))

\* the provider fields merged into the section for the default account
DefaultFields(provider, params) ==
  CASE provider = "telegram" ->
         IF params.useEnv THEN EmptyObj
         ELSE IF params.tokenFile # "" THEN "tokenFile" :> params.tokenFile
         ELSE IF params.token # "" THEN "botToken" :> params.token
         ELSE EmptyObj
    [] provider = "discord" ->
         IF params.useEnv THEN EmptyObj ELSE Opt("token", params.token)
    [] provider = "slack" ->
         IF params.useEnv THEN EmptyObj
         ELSE Spread(Opt("botToken", params.botToken), Opt("appToken", params.appToken))
    [] provider = "signal" ->
         Spread(Spread(Spread(Spread(
           Opt("account", params.signalNumber),
           Opt("cliPath", params.cliPath)),
           Opt("httpUrl", params.httpUrl)),
           Opt("httpHost", params.httpHost)),
           IF params.httpPort # "" THEN "httpPort" :> Number(params.httpPort)
           ELSE EmptyObj)
    [] provider = "imessage" ->
         Spread(Spread(Spread(
           Opt("cliPath", params.cliPath),
           Opt("dbPath", params.dbPath)),
           Opt("service", params.service)),
           Opt("region", params.region))

\* the provider fields merged into accounts[accountId] for a named account
NamedFields(provider, params) ==
  CASE provider = "telegram" ->
         IF params.tokenFile # "" THEN "tokenFile" :> params.tokenFile
         ELSE IF params.token # "" THEN "botToken" :> params.token
         ELSE EmptyObj
    [] provider = "discord" -> Opt("token", params.token)
    [] provider = "slack" ->
         Spread(Opt("botToken", params.botToken), Opt("appToken", params.appToken))
    [] provider = "signal" ->
         Spread(Spread(Spread(Spread(
           Opt("account", params.signalNumber),
           Opt("cliPath", params.cliPath)),
           Opt("httpUrl", params.httpUrl)),
           Opt("httpHost", params.httpHost)),
           IF params.httpPort # "" THEN "httpPort" :> Number(params.httpPort)
           ELSE EmptyObj)
    [] provider = "imessage" ->
         Spread(Spread(Spread(
           Opt("cliPath", params.cliPath),
           Opt("dbPath", params.dbPath)),
           Opt("service", params.service)),
           Opt("region", params.region))

\* the whatsapp branch: accounts[accountId] merged with authDir, enabled and name
WhatsAppAdd(next, accountId, params, name) ==
  LET entry == Spread(Spread(Spread(
                 Account(next, "whatsapp", accountId),
                 Opt("authDir", params.authDir)),
                 "enabled" :> TRUE),
                 NameOpt(name))
  IN Spread(next, "whatsapp" :>
       Spread(Section(next, "whatsapp"), "accounts" :>
         Spread(Accounts(next, "whatsapp"), accountId :> entry)))

\* the accountId === DEFAULT_ACCOUNT_ID branch of the other five providers
DefaultAdd(next, provider, params, name) ==
  Spread(next, provider :>
    Spread(Spread(Spread(
      Section(next, provider),
      "enabled" :> TRUE),
      DefaultFields(provider, params)),
      NameOpt(name)))

\* the named-account branch of the other five providers
NamedAdd(next, provider, accountId, params, name) ==
  Spread(next, provider :>
    Spread(Spread(
      Section(next, provider),
      "enabled" :> TRUE),
      "accounts" :>
        Spread(Accounts(next, provider), accountId :>
          Spread(Spread(Spread(
            Account(next, provider, accountId),
            "enabled" :> TRUE),
            NamedFields(provider, params)),
            NameOpt(name)))))

\* a default account goes into the accounts map while the section does not exist yet
applyProviderAccountConfigBySection(cfg, provider, accountIdRaw, params) ==
  LET accountId == normalizeAccountId(accountIdRaw)
      name == Trim(params.name)
      next == applyAccountName(cfg, provider, accountId, name)
  IN IF provider = "whatsapp" THEN WhatsAppAdd(next, accountId, params, name)
     ELSE IF accountId = DEFAULT_ACCOUNT_ID /\ provider \in DOMAIN cfg
          THEN DefaultAdd(next, provider, params, name)
          ELSE NamedAdd(next, provider, accountId, params, name)

\* the record is built from the request alone: the existing record is not spread
applyProviderAccountConfigReplace(cfg, provider, accountIdRaw, params) ==
  LET accountId == normalizeAccountId(accountIdRaw)
      name == Trim(params.name)
      next == applyAccountName(cfg, provider, accountId, name)
      dropped == IF provider # "whatsapp" /\ accountId = DEFAULT_ACCOUNT_ID
                 THEN Without(next, {provider})
                 ELSE IF HasAccounts(next, provider)
                      THEN Spread(next, provider :>
                             Spread(next[provider], "accounts" :>
                               Without(Accounts(next, provider), {accountId})))
                      ELSE next
  IN IF provider = "whatsapp" THEN WhatsAppAdd(dropped, accountId, params, name)
     ELSE IF accountId = DEFAULT_ACCOUNT_ID
          THEN DefaultAdd(dropped, provider, params, name)
          ELSE NamedAdd(dropped, provider, accountId, params, name)

applyProviderAccountConfig(cfg, provider, accountIdRaw, params) ==
  LET accountId == normalizeAccountId(accountIdRaw)
      name == Trim(params.name)
      next == applyAccountName(cfg, provider, accountId, name)
  IN IF provider = "whatsapp" THEN WhatsAppAdd(next, accountId, params, name)
     ELSE IF provider \in {"telegram", "discord", "slack", "signal", "imessage"} THEN
       IF accountId = DEFAULT_ACCOUNT_ID
       THEN DefaultAdd(next, provider, params, name)
       ELSE NamedAdd(next, provider, accountId, params, name)
     ELSE next

\* the entry is replaced by { enabled } instead of being merged with it
setAccountEnabledReplace(cfg, key, accountKey, enabled) ==
  IF key # "whatsapp" /\ accountKey = DEFAULT_ACCOUNT_ID /\ ~HasAccounts(cfg, key) THEN
    Spread(cfg, key :> [enabled |-> enabled])
  ELSE
    Spread(cfg, key :>
      Spread(Section(cfg, key), "accounts" :>
        Spread(Accounts(cfg, key), accountKey :> [enabled |-> enabled])))

\* the flag always goes into accounts[accountKey], also for a flat default account
setAccountEnabledInMap(cfg, key, accountKey, enabled) ==
  Spread(cfg, key :>
    Spread(Section(cfg, key), "accounts" :>
      Spread(Accounts(cfg, key), accountKey :>
        Spread(Account(cfg, key, accountKey), "enabled" :> enabled))))

setAccountEnabled(cfg, key, accountKey, enabled) ==
  IF key = "whatsapp" THEN
    Spread(cfg, "whatsapp" :>
      Spread(Section(cfg, "whatsapp"), "accounts" :>
        Spread(Accounts(cfg, "whatsapp"), accountKey :>
          Spread(Account(cfg, "whatsapp", accountKey), "enabled" :> enabled))))
  ELSE IF accountKey = DEFAULT_ACCOUNT_ID /\ ~HasAccounts(cfg, key) THEN
    Spread(cfg, key :> Spread(Section(cfg, key), "enabled" :> enabled))
  ELSE
    Spread(cfg, key :>
      Spread(Section(cfg, key), "accounts" :>
        Spread(Accounts(cfg, key), accountKey :>
          Spread(Account(cfg, key, accountKey), "enabled" :> enabled))))

\* the accounts map is written back even when its last entry was deleted
WithAccountsOrEmpty(section, accounts) == Spread(section, "accounts" :> accounts)

\* { ...section, accounts: Object.keys(accounts).length ? accounts : undefined }
WithAccountsOrNone(section, accounts) ==
  IF DOMAIN accounts # {} THEN Spread(section, "accounts" :> accounts)
  ELSE Without(section, {"accounts"})

\* the section fields set to undefined when the default account is deleted
ClearedFields(key) ==
  CASE key = "telegram" -> {"botToken", "tokenFile", "name"}
    [] key = "discord"  -> {"token", "name"}
    [] key = "slack"    -> {"botToken", "appToken", "name"}
    [] key = "signal"   -> {"account", "httpUrl", "httpHost", "httpPort", "cliPath", "name"}
    [] key = "imessage" -> {"cliPath", "dbPath", "service", "region", "name"}
    [] OTHER            -> {}

\* the default account is only ever removed from the accounts map
deleteAccountMapOnly(cfg, key, accountKey) ==
  Spread(cfg, key :>
    WithAccountsOrNone(Section(cfg, key), Without(Accounts(cfg, key), {accountKey})))

deleteAccount(cfg, key, accountKey) ==
  IF key = "whatsapp" THEN
    Spread(cfg, "whatsapp" :>
      WithAccountsOrNone(Section(cfg, "whatsapp"),
                         Without(Accounts(cfg, "whatsapp"), {accountKey})))
  ELSE IF accountKey # DEFAULT_ACCOUNT_ID THEN
    Spread(cfg, key :>
      WithAccountsOrNone(Section(cfg, key), Without(Accounts(cfg, key), {accountKey})))
  ELSE IF HasAccounts(cfg, key) /\ DOMAIN Accounts(cfg, key) # {} THEN
    Spread(cfg, key :>
      Without(WithAccountsOrNone(Section(cfg, key),
                                 Without(Accounts(cfg, key), {accountKey})),
              ClearedFields(key)))
  ELSE Without(cfg, {key})

\* const accountKey = accountId || DEFAULT_ACCOUNT_ID, accountId being normalized
AccountKey(accountRaw) ==
  LET accountId == normalizeAccountId(accountRaw)
  IN IF accountId # "" THEN accountId ELSE DEFAULT_ACCOUNT_ID

(***************************************************************************)
(* Inputs: option values and documents                                     *)
(***************************************************************************)
NoName == << >>

BotName == <<" ", "B", "o", "t", " ">>

OpsName == <<"O", "p", "s">>

BlankName == <<" ", "\t">>

\* ProvidersAddOptions with no option given
NoParams ==
  [name |-> NoName, token |-> "", tokenFile |-> "", botToken |-> "", appToken |-> "",
   signalNumber |-> "", cliPath |-> "", dbPath |-> "", service |-> "", region |-> "",
   authDir |-> "", httpUrl |-> "", httpHost |-> "", httpPort |-> "", useEnv |-> FALSE]

\* the credential options tried for each provider: its own, alone and combined,
\* and an option that belongs to another provider
CredentialChoices(provider) ==
  CASE provider = "whatsapp" ->
         {EmptyObj, [authDir |-> "/wa"], [token |-> "abc"]}
    [] provider = "telegram" ->
         {EmptyObj, [token |-> "abc"], [tokenFile |-> "/tok"],
          [token |-> "abc", tokenFile |-> "/tok"], [appToken |-> "xapp"]}
    [] provider = "discord" ->
         {EmptyObj, [token |-> "abc"], [botToken |-> "xoxb"]}
    [] provider = "slack" ->
         {EmptyObj, [botToken |-> "xoxb"], [appToken |-> "xapp"],
          [botToken |-> "xoxb", appToken |-> "xapp"], [token |-> "abc"]}
    [] provider = "signal" ->
         {EmptyObj, [signalNumber |-> "+15550100"], [cliPath |-> "/bin/cli"],
          [httpUrl |-> "http://h"], [httpHost |-> "h"], [httpPort |-> "8080"],
          [httpPort |-> "port"], [cliPath |-> "/bin/cli", httpPort |-> " 8181 "],
          [dbPath |-> "/db"]}
    [] provider = "imessage" ->
         {EmptyObj, [cliPath |-> "/bin/cli"], [dbPath |-> "/db"], [service |-> "sms"],
          [region |-> "US"], [cliPath |-> "/bin/cli", dbPath |-> "/db"],
          [authDir |-> "/wa"]}
    [] OTHER -> {EmptyObj}

UseEnvChoices(provider) ==
  IF provider \in {"telegram", "discord", "slack"} THEN BOOLEAN ELSE {FALSE}

\* every credential choice with and without useEnv; a display name alone and with
\* the provider's own credentials; a blank display name
AddParams(provider) ==
  {Spread(Spread(NoParams, c), [useEnv |-> u]) :
     c \in CredentialChoices(provider), u \in UseEnvChoices(provider)}
  \cup {Spread(Spread(NoParams, c), [name |-> BotName]) :
          c \in {EmptyObj, CHOOSE c \in CredentialChoices(provider) :
                             \A d \in CredentialChoices(provider) :
                               Cardinality(DOMAIN d) <= Cardinality(DOMAIN c)}}
  \cup {Spread(NoParams, [name |-> BlankName])}

\* fields a configured record of the provider holds in the documents tried
StoredFields(provider) ==
  CASE provider = "whatsapp" -> [authDir |-> "/old"]
    [] provider = "telegram" -> [botToken |-> "old"]
    [] provider = "discord"  -> [token |-> "old"]
    [] provider = "slack"    -> [botToken |-> "oldb", appToken |-> "olda"]
    [] provider = "signal"   -> [account |-> "+15550199", httpPort |-> 9090]
    [] provider = "imessage" -> [cliPath |-> "/old/cli", service |-> "auto"]

\* a top-level section no provider command is about
OtherSections == [agent |-> [model |-> "m"]]

\* the documents a command can find on disk, for one provider: no section; a flat
\* single-account section, enabled or disabled; named accounts, with and without
\* section-level fields and a default entry; a section with no account fields
DocsFor(provider) ==
  LET stored == StoredFields(provider)
      record == Spread(stored, [enabled |-> TRUE])
      named == Spread(record, [name |-> OpsName])
      off == Spread(stored, [enabled |-> FALSE])
      extra == [dmPolicy |-> "pairing"]
  IN {EmptyObj,
      OtherSections,
      Spread(OtherSections, provider :> Spread(named, extra)),
      Spread(OtherSections, provider :> off),
      provider :> [enabled |-> TRUE, accounts |-> [work |-> record]],
      Spread(OtherSections, provider :> Spread(record, [accounts |-> [work |-> named]])),
      provider :> [accounts |-> [default |-> Spread(off, [name |-> OpsName]),
                                 work |-> record]],
      provider :> [accounts |-> [default |-> record]],
      provider :> extra}

(***************************************************************************)
(* State of the patch sequences (PatchSpec)                                *)
(***************************************************************************)
MaxOps == 2

AccountChoices == {"", " work "}

VARIABLES
  pprovider, \* the provider operated on
  pdoc,      \* the document after the operations so far
  pbefore,   \* the document before the last operation
  plast,     \* [op, account, params]: the last operation and its raw account id
  pprev,     \* [op, account, params]: the operation before it
  pcount     \* operations applied

patchVars == <<pprovider, pdoc, pbefore, plast, pprev, pcount>>

NoOp == [op |-> "none", account |-> "", params |-> NoParams]

(***************************************************************************)
(* The commands: providersListCommand, providersAddCommand,                *)
(* providersRemoveCommand                                                  *)
(***************************************************************************)
MaxCmds == 1

VARIABLES
  disk,       \* the config file: [exists, valid, issues, config]
  cmd,        \* the command running: "idle", "list", "add", "remove"
  pc,         \* its position
  opts,       \* its options
  wizard,     \* params.hasFlags === false
  cfg,        \* the document requireValidConfig returned
  next,       \* nextConfig / next: the document being patched
  provider,   \* the provider resolved from the options or chosen in the wizard
  accountId,  \* the account id resolved from the options or chosen in the wizard
  selection,  \* wizard add: [providers, accountIds] reported by setupProviders
  idx,        \* wizard add: index of the provider whose name is asked
  writes,     \* documents passed to writeConfigFile by this invocation
  exits,      \* runtime.exit(1) calls of this invocation
  errors,     \* runtime.error messages of this invocation
  prompts,    \* prompts shown by this invocation
  logs,       \* runtime.log output of this invocation
  ncmds       \* commands started

cmdVars == <<disk, cmd, pc, opts, wizard, cfg, next, provider, accountId, selection,
             idx, writes, exits, errors, prompts, logs, ncmds>>

\* providersStatusCommand
VARIABLES
  requests,   \* the callGateway requests of this invocation
  payload     \* what callGateway resolved with

statusVars == <<requests, payload>>

\* normalizeChatProvider applied to one input
VARIABLES
  nraw,    \* the raw input
  nkind,   \* the result, "pending" before the call
  nagain   \* the result of normalizing the result, "pending" before that call

normVars == <<nraw, nkind, nagain>>

\* extensions/feishu: the client cache of client.ts and the feishu_perm tool of perm.ts
VARIABLES
  cachedClient,  \* client.ts: the cached Lark.Client, or null
  cachedConfig,  \* client.ts: the credentials it was built from, or null
  clients,       \* Lark.Client objects constructed so far
  fcall,         \* the last createFeishuClient call: its resolved credentials, outcome and the cache around it
  fop,           \* the last operation on the module: "none", "create", "clear", "execute"
  api,           \* the plugin api's channels.feishu config
  regpc,         \* registerFeishuPermTools: "pending" or "done"
  tools,         \* names passed to api.registerTool
  flogs,         \* api.logger output
  fexec,         \* the last execute call of the feishu_perm tool
  fcount         \* create, clear and execute calls made

feishuVars == <<cachedClient, cachedConfig, clients, fcall, fop, api, regpc, tools,
                flogs, fexec, fcount>>

\* what a step of the add, list and remove commands leaves alone
besideCmd == <<patchVars, statusVars, normVars, feishuVars>>

vars == <<cmdVars, patchVars, statusVars, normVars, feishuVars>>

(***************************************************************************)
(* Inputs of the commands                                                  *)
(***************************************************************************)
\* raw --provider values: the six names, case and padding variants, the alias,
\* an unknown name and none
RawProviders ==
  {ProviderChars[p] : p \in ChatProviders}
  \cup {<<" ", "T", "e", "l", "e", "g", "r", "a", "m", " ">>,
        <<"i", "m", "s", "g">>, <<"I", "M", "S", "G">>,
        <<"i", "r", "c">>, << >>}

\* the provider names spelled exactly carry every parameter choice, the variants one
AddOptions ==
  UNION {{Spread(params, [provider |-> ProviderChars[p], account |-> a]) :
            a \in AccountChoices, params \in AddParams(p)} : p \in ChatProviders}
  \cup {Spread(NoParams, [provider |-> r, account |-> a, token |-> "abc"]) :
          r \in RawProviders, a \in AccountChoices}

RemoveOptions ==
  [provider : RawProviders, account : AccountChoices, delete : BOOLEAN]

ListOptions == [json : BOOLEAN, usage : BOOLEAN]

NoOptions == EmptyObj

\* what setupProviders reports through onSelection and onAccountId
Selections ==
  {[providers |-> << >>, accountIds |-> EmptyObj]}
  \cup {[providers |-> <<p>>, accountIds |-> (p :> a)] :
          p \in ChatProviders, a \in {DEFAULT_ACCOUNT_ID, "work"}}
  \cup {[providers |-> <<p>>, accountIds |-> EmptyObj] : p \in {"telegram", "whatsapp"}}
  \cup {[providers |-> <<"telegram", "discord">>,
         accountIds |-> [telegram |-> "work", discord |-> DEFAULT_ACCOUNT_ID]]}

\* the credentials the wizard collects for a provider
WizardParams(p) ==
  Spread(NoParams,
         CHOOSE c \in CredentialChoices(p) :
           \A d \in CredentialChoices(p) : Cardinality(DOMAIN d) <= Cardinality(DOMAIN c))

\* accountIds[provider] ?? DEFAULT_ACCOUNT_ID
SelectedAccount(sel, p) ==
  IF p \in DOMAIN sel.accountIds THEN sel.accountIds[p] ELSE DEFAULT_ACCOUNT_ID

\* setupProviders: the document with every selected provider account configured
RECURSIVE setupProviders(_, _, _)
setupProviders(doc, sel, i) ==
  IF i > Len(sel.providers) THEN doc
  ELSE setupProviders(
         applyProviderAccountConfig(doc, sel.providers[i],
                                    SelectedAccount(sel, sel.providers[i]),
                                    WizardParams(sel.providers[i])),
         sel, i + 1)

\* listTelegramAccountIds and its five siblings: the ids of the accounts map, or the
\* default account id when there is none
listAccountIds(doc, p) ==
  IF DOMAIN Accounts(doc, p) = {} THEN {DEFAULT_ACCOUNT_ID} ELSE DOMAIN Accounts(doc, p)

Issue == [path |-> "telegram.botToken", message |-> "expected string"]

\* the config files a command can find
Disks ==
  {[exists |-> FALSE, valid |-> v, issues |-> << >>, config |-> EmptyObj] : v \in BOOLEAN}
  \cup {[exists |-> TRUE, valid |-> FALSE, issues |-> i, config |-> EmptyObj] :
          i \in {<< >>, <<Issue>>}}
  \cup {[exists |-> TRUE, valid |-> TRUE, issues |-> << >>, config |-> d] :
          d \in DocsFor("telegram") \cup DocsFor("whatsapp")}

\* readConfigFileSnapshot
readConfigFileSnapshot == disk

(***************************************************************************)
(* Initial states                                                          *)
(***************************************************************************)
NoSelection == [providers |-> << >>, accountIds |-> EmptyObj]

CmdIdle ==
  /\ cmd = "idle"
  /\ pc = "idle"
  /\ opts = NoOptions
  /\ wizard = FALSE
  /\ cfg = EmptyObj
  /\ next = EmptyObj
  /\ provider = NoProvider
  /\ accountId = DEFAULT_ACCOUNT_ID
  /\ selection = NoSelection
  /\ idx = 0
  /\ writes = << >>
  /\ exits = 0
  /\ errors = << >>
  /\ prompts = << >>
  /\ logs = << >>
  /\ ncmds = 0

PatchIdle ==
  /\ pprovider = "telegram"
  /\ pdoc = EmptyObj
  /\ pbefore = EmptyObj
  /\ plast = NoOp
  /\ pprev = NoOp
  /\ pcount = 0

StatusIdle ==
  /\ requests = << >>
  /\ payload = [type |-> "undefined"]

NormIdle ==
  /\ nraw = << >>
  /\ nkind = "pending"
  /\ nagain = "pending"

NoClient == [type |-> "null"]

NoConfig == [type |-> "null"]

NoCall == [made |-> FALSE]

NoExec == [made |-> FALSE]

NoFeishu == [present |-> FALSE]

CacheEmpty ==
  /\ cachedClient = NoClient
  /\ cachedConfig = NoConfig
  /\ clients = 0
  /\ fcall = NoCall
  /\ fop = "none"

FeishuIdle ==
  /\ CacheEmpty
  /\ api = NoFeishu
  /\ regpc = "pending"
  /\ tools = << >>
  /\ flogs = << >>
  /\ fexec = NoExec
  /\ fcount = 0

Init == disk \in Disks /\ CmdIdle /\ PatchIdle /\ StatusIdle /\ NormIdle /\ FeishuIdle

(***************************************************************************)
(* Steps shared by the commands                                            *)
(***************************************************************************)
Err(text) == [text |-> text, items |-> << >>]

\* a command is invoked: nothing of the previous invocation is kept but the file
Start(name, options, useWizard) ==
  /\ pc \in {"idle", "done", "threw"}
  /\ ncmds < MaxCmds
  /\ ncmds' = ncmds + 1
  /\ cmd' = name
  /\ opts' = options
  /\ wizard' = useWizard
  /\ pc' = "requireValidConfig"
  /\ cfg' = EmptyObj
  /\ next' = EmptyObj
  /\ provider' = NoProvider
  /\ accountId' = DEFAULT_ACCOUNT_ID
  /\ selection' = NoSelection
  /\ idx' = 0
  /\ writes' = << >>
  /\ exits' = 0
  /\ errors' = << >>
  /\ prompts' = << >>
  /\ logs' = << >>
  /\ UNCHANGED <<disk, besideCmd>>

\* the position after requireValidConfig returned a document
BodyOf(name, useWizard) ==
  CASE name = "list" -> "listBody"
    [] name = "add" -> IF useWizard THEN "addIntro" ELSE "addFlags"
    [] name = "remove" -> IF useWizard THEN "removeIntro" ELSE "removeFlags"

\* the invalid snapshot is reported but its config is returned, not null
RequireValidConfigNoReturn ==
  /\ pc = "requireValidConfig"
  /\ LET snapshot == readConfigFileSnapshot
     IN /\ IF snapshot.exists /\ ~snapshot.valid
           THEN /\ errors' = errors \o
                     <<[text |-> "Config invalid:",
                        items |-> IF Len(snapshot.issues) > 0 THEN snapshot.issues
                                  ELSE <<"Unknown validation issue.">>],
                       Err("Fix the config or run clawdbot doctor.")>>
                /\ exits' = exits + 1
           ELSE UNCHANGED <<errors, exits>>
        /\ cfg' = snapshot.config
        /\ next' = snapshot.config
        /\ provider' = IF cmd = "remove" THEN normalizeChatProvider(opts.provider)
                       ELSE NoProvider
        /\ accountId' = IF cmd = "remove" THEN normalizeAccountId(opts.account)
                        ELSE DEFAULT_ACCOUNT_ID
        /\ pc' = BodyOf(cmd, wizard)
  /\ UNCHANGED <<disk, cmd, opts, wizard, selection, idx, writes, prompts, logs, ncmds,
                 besideCmd>>

\* requireValidConfig, with the locals the remove command sets from its options
RequireValidConfig ==
  /\ pc = "requireValidConfig"
  /\ LET snapshot == readConfigFileSnapshot
     IN IF snapshot.exists /\ ~snapshot.valid
        THEN /\ errors' = errors \o
                  <<[text |-> "Config invalid:",
                     items |-> IF Len(snapshot.issues) > 0 THEN snapshot.issues
                               ELSE <<"Unknown validation issue.">>],
                    Err("Fix the config or run clawdbot doctor.")>>
             /\ exits' = exits + 1
             /\ pc' = "done"
             /\ UNCHANGED <<cfg, next, provider, accountId>>
        ELSE /\ cfg' = snapshot.config
             /\ next' = snapshot.config
             /\ provider' = IF cmd = "remove" THEN normalizeChatProvider(opts.provider)
                            ELSE NoProvider
             /\ accountId' = IF cmd = "remove" THEN normalizeAccountId(opts.account)
                             ELSE DEFAULT_ACCOUNT_ID
             /\ pc' = BodyOf(cmd, wizard)
             /\ UNCHANGED <<errors, exits>>
  /\ UNCHANGED <<disk, cmd, opts, wizard, selection, idx, writes, prompts, logs, ncmds,
                 besideCmd>>

\* await writeConfigFile(next) and the confirmation that follows it
WriteConfig ==
  /\ pc = "write"
  /\ writes' = Append(writes, next)
  /\ disk' = [exists |-> TRUE, valid |-> TRUE, issues |-> << >>, config |-> next]
  /\ IF wizard
     THEN /\ prompts' = Append(prompts, "outro")
          /\ UNCHANGED logs
     ELSE /\ logs' = Append(logs, IF cmd = "add" THEN "Added"
                                  ELSE IF opts.delete THEN "Deleted" ELSE "Disabled")
          /\ UNCHANGED prompts
  /\ pc' = "done"
  /\ UNCHANGED <<cmd, opts, wizard, cfg, next, provider, accountId, selection, idx,
                 exits, errors, ncmds, besideCmd>>

(***************************************************************************)
(* providersListCommand                                                    *)
(***************************************************************************)
ListStart == \E o \in ListOptions : Start("list", o, FALSE)

\* json output: the usage summary is awaited before the payload is logged
ListJson ==
  /\ pc = "listBody"
  /\ opts.json
  /\ \E usageLoaded \in BOOLEAN :
       IF opts.usage /\ ~usageLoaded
       THEN pc' = "threw" /\ UNCHANGED logs
       ELSE pc' = "done" /\ logs' = Append(logs, "payload")
  /\ UNCHANGED <<disk, cmd, opts, wizard, cfg, next, provider, accountId, selection,
                 idx, writes, exits, errors, prompts, ncmds, besideCmd>>

\* the account and auth profile lines
ListLines ==
  /\ pc = "listBody"
  /\ ~opts.json
  /\ logs' = Append(logs, "listing")
  /\ pc' = IF opts.usage THEN "listUsage" ELSE "listDocs"
  /\ UNCHANGED <<disk, cmd, opts, wizard, cfg, next, provider, accountId, selection,
                 idx, writes, exits, errors, prompts, ncmds, besideCmd>>

\* loadUsageWithSpinner: a failure is reported and null returned
ListUsage ==
  /\ pc = "listUsage"
  /\ \E usageLoaded \in BOOLEAN :
       IF usageLoaded
       THEN logs' = logs \o <<"", "usage">> /\ UNCHANGED errors
       ELSE logs' = Append(logs, "") /\ errors' = Append(errors, Err("usage failed"))
  /\ pc' = "listDocs"
  /\ UNCHANGED <<disk, cmd, opts, wizard, cfg, next, provider, accountId, selection,
                 idx, writes, exits, prompts, ncmds, besideCmd>>

ListDocs ==
  /\ pc = "listDocs"
  /\ logs' = logs \o <<"", "Docs">>
  /\ pc' = "done"
  /\ UNCHANGED <<disk, cmd, opts, wizard, cfg, next, provider, accountId, selection,
                 idx, writes, exits, errors, prompts, ncmds, besideCmd>>

(***************************************************************************)
(* providersAddCommand                                                     *)
(***************************************************************************)
AddStart ==
  \/ \E o \in AddOptions : Start("add", o, FALSE)
  \/ Start("add", Spread(NoParams, [provider |-> << >>, account |-> ""]), TRUE)

\* the slack checks test the required tokens only: useEnv with a named account passes
AddRejectionNoSlackEnv(o) ==
  LET p == normalizeChatProvider(o.provider)
      id == normalizeAccountId(o.account)
      useEnv == o.useEnv = TRUE
  IN IF p = NoProvider THEN "Unknown provider"
     ELSE IF p = "telegram" /\ useEnv /\ id # DEFAULT_ACCOUNT_ID
       THEN "TELEGRAM_BOT_TOKEN can only be used for the default account."
     ELSE IF p = "telegram" /\ ~useEnv /\ o.token = "" /\ o.tokenFile = ""
       THEN "Telegram requires --token or --token-file (or --use-env)."
     ELSE IF p = "discord" /\ useEnv /\ id # DEFAULT_ACCOUNT_ID
       THEN "DISCORD_BOT_TOKEN can only be used for the default account."
     ELSE IF p = "discord" /\ ~useEnv /\ o.token = ""
       THEN "Discord requires --token (or --use-env)."
     ELSE IF p = "slack" /\ ~useEnv /\ (o.botToken = "" \/ o.appToken = "")
       THEN "Slack requires --bot-token and --app-token (or --use-env)."
     ELSE IF /\ p = "signal"
             /\ o.signalNumber = "" /\ o.httpUrl = "" /\ o.httpHost = ""
             /\ o.httpPort = "" /\ o.cliPath = ""
       THEN "Signal requires --signal-number or --http-url/--http-host/--http-port/--cli-path."
     ELSE ""

\* the error of the flag checks, "" when the options pass
AddRejection(o) ==
  LET p == normalizeChatProvider(o.provider)
      id == normalizeAccountId(o.account)
      useEnv == o.useEnv = TRUE
  IN IF p = NoProvider THEN "Unknown provider"
     ELSE IF p = "telegram" /\ useEnv /\ id # DEFAULT_ACCOUNT_ID
       THEN "TELEGRAM_BOT_TOKEN can only be used for the default account."
     ELSE IF p = "telegram" /\ ~useEnv /\ o.token = "" /\ o.tokenFile = ""
       THEN "Telegram requires --token or --token-file (or --use-env)."
     ELSE IF p = "discord" /\ useEnv /\ id # DEFAULT_ACCOUNT_ID
       THEN "DISCORD_BOT_TOKEN can only be used for the default account."
     ELSE IF p = "discord" /\ ~useEnv /\ o.token = ""
       THEN "Discord requires --token (or --use-env)."
     ELSE IF p = "slack" /\ useEnv /\ id # DEFAULT_ACCOUNT_ID
       THEN "Slack env tokens can only be used for the default account."
     ELSE IF p = "slack" /\ ~useEnv /\ (o.botToken = "" \/ o.appToken = "")
       THEN "Slack requires --bot-token and --app-token (or --use-env)."
     ELSE IF /\ p = "signal"
             /\ o.signalNumber = "" /\ o.httpUrl = "" /\ o.httpHost = ""
             /\ o.httpPort = "" /\ o.cliPath = ""
       THEN "Signal requires --signal-number or --http-url/--http-host/--http-port/--cli-path."
     ELSE ""

\* a failed check is reported but the command goes on to patch and write
AddFlagsNoReturn ==
  /\ pc = "addFlags"
  /\ IF AddRejection(opts) # ""
     THEN /\ errors' = Append(errors, Err(AddRejection(opts)))
          /\ exits' = exits + 1
     ELSE UNCHANGED <<errors, exits>>
  /\ provider' = normalizeChatProvider(opts.provider)
  /\ accountId' = normalizeAccountId(opts.account)
  /\ next' = applyProviderAccountConfig(
               cfg, normalizeChatProvider(opts.provider),
               normalizeAccountId(opts.account), opts)
  /\ pc' = "write"
  /\ UNCHANGED <<disk, cmd, opts, wizard, cfg, selection, idx, writes, prompts, logs,
                 ncmds, besideCmd>>

\* flag-driven add up to the await of writeConfigFile
AddFlags ==
  /\ pc = "addFlags"
  /\ IF AddRejection(opts) # ""
     THEN /\ errors' = Append(errors, Err(AddRejection(opts)))
          /\ exits' = exits + 1
          /\ pc' = "done"
          /\ UNCHANGED <<next, provider, accountId>>
     ELSE /\ provider' = normalizeChatProvider(opts.provider)
          /\ accountId' = normalizeAccountId(opts.account)
          /\ next' = applyProviderAccountConfig(
                       cfg, normalizeChatProvider(opts.provider),
                       normalizeAccountId(opts.account), opts)
          /\ pc' = "write"
          /\ UNCHANGED <<errors, exits>>
  /\ UNCHANGED <<disk, cmd, opts, wizard, cfg, selection, idx, writes, prompts, logs,
                 ncmds, besideCmd>>

AddIntro ==
  /\ pc = "addIntro"
  /\ prompts' = Append(prompts, "intro")
  /\ pc' = "setupProviders"
  /\ UNCHANGED <<disk, cmd, opts, wizard, cfg, next, provider, accountId, selection,
                 idx, writes, exits, errors, logs, ncmds, besideCmd>>

\* await setupProviders(...), then the empty-selection return
AddSetup ==
  /\ pc = "setupProviders"
  /\ \E sel \in Selections :
       /\ selection' = sel
       /\ next' = setupProviders(cfg, sel, 1)
       /\ IF Len(sel.providers) = 0
          THEN prompts' = prompts \o <<"setup", "outro">> /\ pc' = "done"
          ELSE prompts' = Append(prompts, "setup") /\ pc' = "wantsNames"
  /\ UNCHANGED <<disk, cmd, opts, wizard, cfg, provider, accountId, idx, writes, exits,
                 errors, logs, ncmds, besideCmd>>

AddWantsNames ==
  /\ pc = "wantsNames"
  /\ \E wantsNames \in BOOLEAN :
       IF wantsNames
       THEN prompts' = Append(prompts, "names:yes") /\ pc' = "askName" /\ idx' = 1
       ELSE prompts' = Append(prompts, "names:no") /\ pc' = "write" /\ UNCHANGED idx
  /\ UNCHANGED <<disk, cmd, opts, wizard, cfg, next, provider, accountId, selection,
                 writes, exits, errors, logs, ncmds, besideCmd>>

\* what prompter.text can return: nothing, a name, a blank string
EnteredNames == [none |-> NoName, name |-> BotName, blank |-> BlankName]

\* the loop over the selection is left after its first pass
AddAskNameOnce ==
  /\ pc = "askName"
  /\ \E answer \in DOMAIN EnteredNames :
       /\ prompts' = Append(prompts, answer)
       /\ next' = IF Len(Trim(EnteredNames[answer])) > 0
                  THEN applyAccountName(next, selection.providers[idx],
                                        SelectedAccount(selection, selection.providers[idx]),
                                        EnteredNames[answer])
                  ELSE next
  /\ idx' = idx + 1
  /\ pc' = "write"
  /\ UNCHANGED <<disk, cmd, opts, wizard, cfg, provider, accountId, selection, writes,
                 exits, errors, logs, ncmds, besideCmd>>

\* one pass of the loop over the selection
AddAskName ==
  /\ pc = "askName"
  /\ \E answer \in DOMAIN EnteredNames :
       /\ prompts' = Append(prompts, answer)
       /\ next' = IF Len(Trim(EnteredNames[answer])) > 0
                  THEN applyAccountName(next, selection.providers[idx],
                                        SelectedAccount(selection, selection.providers[idx]),
                                        EnteredNames[answer])
                  ELSE next
  /\ idx' = idx + 1
  /\ pc' = IF idx = Len(selection.providers) THEN "write" ELSE "askName"
  /\ UNCHANGED <<disk, cmd, opts, wizard, cfg, provider, accountId, selection, writes,
                 exits, errors, logs, ncmds, besideCmd>>

(***************************************************************************)
(* providersRemoveCommand                                                  *)
(***************************************************************************)
\* the wizard is entered when no flag was given, or with the delete flag alone
RemoveStart ==
  \/ \E o \in RemoveOptions : Start("remove", o, FALSE)
  \/ \E d \in BOOLEAN :
       Start("remove", [provider |-> << >>, account |-> "", delete |-> d], TRUE)

RemoveIntro ==
  /\ pc = "removeIntro"
  /\ prompts' = Append(prompts, "intro")
  /\ pc' = "selectProvider"
  /\ UNCHANGED <<disk, cmd, opts, wizard, cfg, next, provider, accountId, selection,
                 idx, writes, exits, errors, logs, ncmds, besideCmd>>

RemoveSelectProvider ==
  /\ pc = "selectProvider"
  /\ prompts' = Append(prompts, "provider")
  /\ \E p \in ChatProviders : provider' = p
  /\ pc' = "selectAccount"
  /\ UNCHANGED <<disk, cmd, opts, wizard, cfg, next, accountId, selection, idx, writes,
                 exits, errors, logs, ncmds, besideCmd>>

RemoveSelectAccount ==
  /\ pc = "selectAccount"
  /\ prompts' = Append(prompts, "account")
  /\ \E choice \in listAccountIds(cfg, provider) : accountId' = normalizeAccountId(choice)
  /\ pc' = "confirmDisable"
  /\ UNCHANGED <<disk, cmd, opts, wizard, cfg, next, provider, selection, idx, writes,
                 exits, errors, logs, ncmds, besideCmd>>

\* the document handed to writeConfigFile: deleteAccount or setAccountEnabled(false)
Removed ==
  IF opts.delete THEN deleteAccount(cfg, provider, AccountKey(accountId))
  ELSE setAccountEnabled(cfg, provider, AccountKey(accountId), FALSE)

RemoveConfirm ==
  /\ pc = "confirmDisable"
  /\ \E wantsDisable \in BOOLEAN :
       IF wantsDisable
       THEN /\ prompts' = Append(prompts, "confirm:yes")
            /\ next' = Removed
            /\ pc' = "write"
       ELSE /\ prompts' = IF wizard THEN prompts \o <<"confirm:no", "outro">>
                          ELSE Append(prompts, "confirm:no")
            /\ pc' = "done"
            /\ UNCHANGED next
  /\ UNCHANGED <<disk, cmd, opts, wizard, cfg, provider, accountId, selection, idx,
                 writes, exits, errors, logs, ncmds, besideCmd>>

\* the disable is patched and written without asking for the confirmation
RemoveFlagsNoConfirm ==
  /\ pc = "removeFlags"
  /\ IF provider = NoProvider
     THEN /\ errors' = Append(errors, Err("Provider is required. Use --provider <name>."))
          /\ exits' = exits + 1
          /\ pc' = "done"
          /\ UNCHANGED next
     ELSE /\ next' = Removed
          /\ pc' = "write"
          /\ UNCHANGED <<errors, exits>>
  /\ UNCHANGED <<disk, cmd, opts, wizard, cfg, provider, accountId, selection, idx,
                 writes, prompts, logs, ncmds, besideCmd>>

\* flag-driven remove up to its first await
RemoveFlags ==
  /\ pc = "removeFlags"
  /\ IF provider = NoProvider
     THEN /\ errors' = Append(errors, Err("Provider is required. Use --provider <name>."))
          /\ exits' = exits + 1
          /\ pc' = "done"
          /\ UNCHANGED next
     ELSE /\ IF opts.delete THEN next' = Removed /\ pc' = "write"
             ELSE pc' = "confirmDisable" /\ UNCHANGED next
          /\ UNCHANGED <<errors, exits>>
  /\ UNCHANGED <<disk, cmd, opts, wizard, cfg, provider, accountId, selection, idx,
                 writes, prompts, logs, ncmds, besideCmd>>

Next ==
  \/ ListStart \/ AddStart \/ RemoveStart
  \/ RequireValidConfig \/ WriteConfig
  \/ ListJson \/ ListLines \/ ListUsage \/ ListDocs
  \/ AddFlags \/ AddIntro \/ AddSetup \/ AddWantsNames \/ AddAskName
  \/ RemoveIntro \/ RemoveSelectProvider \/ RemoveSelectAccount \/ RemoveConfirm
  \/ RemoveFlags

Spec == Init /\ [][Next]_vars

(***************************************************************************)
(* Patch functions applied in sequence to the accounts of one provider     *)
(***************************************************************************)
PatchInit ==
  /\ pprovider \in ChatProviders
  /\ pdoc \in DocsFor(pprovider)
  /\ pbefore = pdoc
  /\ plast = NoOp
  /\ pprev = NoOp
  /\ pcount = 0
  /\ disk = [exists |-> FALSE, valid |-> TRUE, issues |-> << >>, config |-> EmptyObj]
  /\ CmdIdle
  /\ StatusIdle
  /\ NormIdle
  /\ FeishuIdle

PatchStep(op, account, params, result) ==
  /\ pcount < MaxOps
  /\ pcount' = pcount + 1
  /\ pdoc' = result
  /\ pbefore' = pdoc
  /\ plast' = [op |-> op, account |-> account, params |-> params]
  /\ pprev' = plast
  /\ UNCHANGED <<pprovider, cmdVars, statusVars, normVars, feishuVars>>

PatchAdd ==
  \E account \in AccountChoices, params \in AddParams(pprovider) :
    PatchStep("add", account, params,
              applyProviderAccountConfig(pdoc, pprovider, account, params))

PatchName ==
  \E account \in AccountChoices, name \in {BotName, BlankName} :
    PatchStep("name", account, Spread(NoParams, [name |-> name]),
              applyAccountName(pdoc, pprovider, account, name))

PatchDisable ==
  \E account \in AccountChoices :
    PatchStep("disable", account, NoParams,
              setAccountEnabled(pdoc, pprovider, AccountKey(account), FALSE))

PatchDelete ==
  \E account \in AccountChoices :
    PatchStep("delete", account, NoParams,
              deleteAccount(pdoc, pprovider, AccountKey(account)))

PatchNext == PatchAdd \/ PatchName \/ PatchDisable \/ PatchDelete

PatchSpec == PatchInit /\ [][PatchNext]_vars

(***************************************************************************)
(* providersStatusCommand                                                  *)
(***************************************************************************)
\* JSON values by type: typeof and Array.isArray read the type
Undefined == [type |-> "undefined"]
Null == [type |-> "null"]
Bool(b) == [type |-> "boolean", value |-> b]
Str(text) == [type |-> "string", value |-> text]
Obj(fields) == [type |-> "object", value |-> fields]
Arr(items) == [type |-> "array", value |-> items]

DefaultTimeoutMs == 10000

\* the six response keys with their labels, in the order they are rendered
StatusKeys ==
  <<[key |-> "whatsappAccounts", label |-> "WhatsApp"],
    [key |-> "telegramAccounts", label |-> "Telegram"],
    [key |-> "discordAccounts", label |-> "Discord"],
    [key |-> "slackAccounts", label |-> "Slack"],
    [key |-> "signalAccounts", label |-> "Signal"],
    [key |-> "imessageAccounts", label |-> "iMessage"]>>

\* the property of a value, undefined for a missing one and for a primitive
Prop(value, name) ==
  IF value.type = "object" /\ name \in DOMAIN value.value THEN value.value[name]
  ELSE Undefined

\* reading a property of null or undefined throws a TypeError
PropThrows(value) == value.type \in {"null", "undefined"}

\* the field is tested for truthiness, not for being a boolean
BitTruthy(account, field, yes, no) ==
  IF Prop(account, field).type \in {"undefined", "null"} THEN << >>
  ELSE IF Prop(account, field).type = "boolean" /\ ~Prop(account, field).value THEN <<no>>
  ELSE <<yes>>

\* typeof account[field] === "boolean" ? [yes or no] : []
Bit(account, field, yes, no) ==
  IF Prop(account, field).type = "boolean"
  THEN <<IF Prop(account, field).value THEN yes ELSE no>>
  ELSE << >>

\* the line of one account record: - <label> <accountId>: <bits joined>
AccountLine(label, account) ==
  [label |-> label,
   accountId |-> IF Prop(account, "accountId").type = "string"
                 THEN Prop(account, "accountId").value ELSE "default",
   bits |-> Bit(account, "enabled", "enabled", "disabled")
            \o Bit(account, "configured", "configured", "not configured")
            \o Bit(account, "linked", "linked", "not linked")
            \o Bit(account, "running", "running", "stopped")
            \o Bit(Prop(account, "probe"), "ok", "works", "probe failed")]

\* accounts.map(...) of accountLines
RECURSIVE accountLines(_, _)
accountLines(label, accounts) ==
  IF Len(accounts) = 0 THEN << >>
  ELSE <<AccountLine(label, Head(accounts))>> \o accountLines(label, Tail(accounts))

\* the lines pushed for the keys from the i-th on
RECURSIVE LinesFrom(_, _)
LinesFrom(data, i) ==
  IF i > Len(StatusKeys) THEN << >>
  ELSE (IF Prop(data, StatusKeys[i].key).type = "array"
        THEN accountLines(StatusKeys[i].label, Prop(data, StatusKeys[i].key).value)
        ELSE << >>)
       \o LinesFrom(data, i + 1)

\* building the lines throws: the payload, or a record of a rendered array, is null
RenderThrows(data) ==
  \/ PropThrows(data)
  \/ \E i \in DOMAIN StatusKeys :
       /\ Prop(data, StatusKeys[i].key).type = "array"
       /\ \E j \in DOMAIN Prop(data, StatusKeys[i].key).value :
            PropThrows(Prop(data, StatusKeys[i].key).value[j])

\* the lines of the text output
StatusLines(data) == <<"Gateway reachable.">> \o LinesFrom(data, 1)

\* account records a gateway can answer with
StatusRecords ==
  <<Obj([accountId |-> Str("work"), enabled |-> Bool(TRUE), configured |-> Bool(FALSE),
         linked |-> Bool(TRUE), running |-> Bool(FALSE),
         probe |-> Obj([ok |-> Bool(TRUE)])]),
    Obj([enabled |-> Bool(FALSE), running |-> Bool(TRUE), probe |-> Obj([ok |-> Bool(FALSE)])]),
    Obj([accountId |-> Null, enabled |-> Str("yes"), configured |-> Bool(TRUE),
         probe |-> Null]),
    Obj([accountId |-> Str("default"), linked |-> Bool(FALSE),
         probe |-> Obj([ok |-> Str("no")])]),
    Obj([accountId |-> Str("b"), probe |-> Str("ok")]),
    Obj(EmptyObj),
    Str("account"),
    Null>>

\* the account lists tried for a key: none, one record, two records
StatusLists ==
  << << >> >>
  \o [i \in DOMAIN StatusRecords |-> <<StatusRecords[i]>>]
  \o [i \in DOMAIN StatusRecords |->
        <<StatusRecords[i], Obj([accountId |-> Str("z"), enabled |-> Bool(TRUE)])>>]

\* what the gateway can resolve with
StatusPayloads ==
  <<Null, Undefined, Str("pong"), Obj(EmptyObj),
    Obj([telegramAccounts |-> Str("none"), slackAccounts |-> Null]),
    Obj([imessageAccounts |-> Arr(<<Obj([accountId |-> Str("i")])>>),
         whatsappAccounts |-> Arr(<<Obj([linked |-> Bool(TRUE)])>>),
         signalAccounts |-> Arr(<<Obj([running |-> Bool(TRUE)])>>),
         slackAccounts |-> Arr(<<Obj([enabled |-> Bool(TRUE)])>>),
         discordAccounts |-> Arr(<<Obj([configured |-> Bool(TRUE)])>>),
         telegramAccounts |-> Arr(<<Obj([accountId |-> Str("t")])>>)])>>
  \o [i \in DOMAIN StatusLists |-> Obj([telegramAccounts |-> Arr(StatusLists[i])])]
  \o [i \in DOMAIN StatusLists |->
        Obj([whatsappAccounts |-> Arr(StatusLists[i]),
             discordAccounts |-> Arr(<<Obj(EmptyObj)>>)])]

\* how a callGateway request can fail
GatewayFailures == {"transport", "timeout"}

StatusOptions == [json : BOOLEAN, probe : BOOLEAN, timeout : {"", "8080", "port"}]

\* Number(opts.timeout ?? 10_000)
timeoutMs(options) ==
  IF options.timeout = "" THEN DefaultTimeoutMs ELSE Number(options.timeout)

StatusStart ==
  /\ pc \in {"idle", "done", "threw"}
  /\ ncmds < MaxCmds
  /\ ncmds' = ncmds + 1
  /\ cmd' = "status"
  /\ \E o \in StatusOptions : opts' = o
  /\ pc' = "callGateway"
  /\ exits' = 0
  /\ errors' = << >>
  /\ logs' = << >>
  /\ prompts' = << >>
  /\ writes' = << >>
  /\ requests' = << >>
  /\ payload' = Undefined
  /\ UNCHANGED <<disk, wizard, cfg, next, provider, accountId, selection, idx, patchVars, normVars,
                 feishuVars>>

\* await callGateway(...): it resolves with a payload or rejects
CallGateway ==
  /\ pc = "callGateway"
  /\ requests' = Append(requests,
                        [method |-> "providers.status",
                         params |-> [probe |-> opts.probe, timeoutMs |-> timeoutMs(opts)],
                         timeoutMs |-> timeoutMs(opts)])
  /\ \/ \E failure \in GatewayFailures : pc' = "catch" /\ UNCHANGED payload
     \/ \E i \in DOMAIN StatusPayloads : pc' = "render" /\ payload' = StatusPayloads[i]
  /\ UNCHANGED <<disk, cmd, opts, wizard, cfg, next, provider, accountId, selection,
                 idx, writes, exits, errors, prompts, logs, ncmds, patchVars, normVars,
                 feishuVars>>

\* each line is logged as it is built, so a throw comes after the first lines
StatusRenderEager ==
  /\ pc = "render"
  /\ IF opts.json
     THEN logs' = Append(logs, [json |-> payload]) /\ pc' = "done"
     ELSE IF RenderThrows(payload)
          THEN pc' = "catch" /\ logs' = Append(logs, [lines |-> <<"Gateway reachable.">>])
          ELSE logs' = Append(logs, [lines |-> StatusLines(payload)]) /\ pc' = "done"
  /\ UNCHANGED <<disk, cmd, opts, wizard, cfg, next, provider, accountId, selection,
                 idx, writes, exits, errors, prompts, ncmds, besideCmd>>

\* the body of the try after the await: the JSON payload, or the lines in one log call
StatusRender ==
  /\ pc = "render"
  /\ IF opts.json
     THEN logs' = Append(logs, [json |-> payload]) /\ pc' = "done"
     ELSE IF RenderThrows(payload)
          THEN pc' = "catch" /\ UNCHANGED logs
          ELSE logs' = Append(logs, [lines |-> StatusLines(payload)]) /\ pc' = "done"
  /\ UNCHANGED <<disk, cmd, opts, wizard, cfg, next, provider, accountId, selection,
                 idx, writes, exits, errors, prompts, ncmds, besideCmd>>

\* catch (err): the error and the exit
StatusCatch ==
  /\ pc = "catch"
  /\ errors' = Append(errors, Err("Gateway not reachable"))
  /\ exits' = exits + 1
  /\ pc' = "done"
  /\ UNCHANGED <<disk, cmd, opts, wizard, cfg, next, provider, accountId, selection,
                 idx, writes, prompts, logs, ncmds, besideCmd>>

StatusInit ==
  /\ disk = [exists |-> FALSE, valid |-> TRUE, issues |-> << >>, config |-> EmptyObj]
  /\ CmdIdle
  /\ PatchIdle
  /\ StatusIdle
  /\ NormIdle
  /\ FeishuIdle

StatusNext == StatusStart \/ CallGateway \/ StatusRender \/ StatusCatch

StatusSpec == StatusInit /\ [][StatusNext]_vars

(***************************************************************************)
(* normalizeChatProvider on its own                                        *)
(***************************************************************************)
UpperChar(c) ==
  IF \E i \in DOMAIN LowerChars : LowerChars[i] = c
  THEN UpperChars[CHOOSE i \in DOMAIN LowerChars : LowerChars[i] = c]
  ELSE c

\* the words tried: the six names, the alias, near misses, nothing
RawWords ==
  {ProviderChars[p] : p \in ChatProviders}
  \cup {<<"i","m","s","g">>, <<"i","m","s","g","s">>, <<"i","r","c">>,
        <<"t","e","l","e"," ","g","r","a","m">>, <<"s","l","a","c","k","s">>,
        <<"s","i","g","n","a","l","-","c","l","i">>, <<"0">>, << >>}

\* the spellings of a word: as it is, upper case, capitalized, last letter upper case
Spellings(word) ==
  {word,
   [i \in DOMAIN word |-> UpperChar(word[i])],
   [i \in DOMAIN word |-> IF i = 1 THEN UpperChar(word[i]) ELSE word[i]],
   [i \in DOMAIN word |-> IF i = Len(word) THEN UpperChar(word[i]) ELSE word[i]]}

Paddings == {<< >>, <<" ">>, <<"\t", " ">>, <<"\n">>}

\* the inputs tried, an absent input being read as the empty string (raw ?? "")
RawInputs ==
  UNION {{l \o w \o r : l \in Paddings, r \in Paddings, w \in Spellings(word)} :
           word \in RawWords}

NormInit ==
  /\ disk = [exists |-> FALSE, valid |-> TRUE, issues |-> << >>, config |-> EmptyObj]
  /\ CmdIdle
  /\ PatchIdle
  /\ StatusIdle
  /\ FeishuIdle
  /\ nraw \in RawInputs
  /\ nkind = "pending"
  /\ nagain = "pending"

Normalize ==
  /\ nkind = "pending"
  /\ nkind' = normalizeChatProvider(nraw)
  /\ UNCHANGED <<nraw, nagain, cmdVars, patchVars, statusVars, feishuVars>>

\* the returned kind is given back to the function
NormalizeAgain ==
  /\ nkind \in ChatProviders
  /\ nagain = "pending"
  /\ nagain' = normalizeChatProvider(ProviderChars[nkind])
  /\ UNCHANGED <<nraw, nkind, cmdVars, patchVars, statusVars, feishuVars>>

NormNext == Normalize \/ NormalizeAgain

NormSpec == NormInit /\ [][NormNext]_vars

(***************************************************************************)
(* extensions/feishu/src/client.ts: the cached Lark client                 *)
(***************************************************************************)
MaxCalls == 3

\* FeishuDomain values: "feishu", "lark" or a custom URL
FeishuName == <<"f","e","i","s","h","u">>

LarkName == <<"l","a","r","k">>

CustomUrl == <<"x",".","i","o">>

CustomUrlSlashes == <<"x",".","i","o","/","/">>

\* the members of the SDK's Lark.Domain
LarkDomainFeishu == <<"Lark.Domain.Feishu">>

LarkDomainLark == <<"Lark.Domain.Lark">>

\* domain.replace(/\/+$/, "")
RECURSIVE StripTrailingSlashes(_)
StripTrailingSlashes(s) ==
  IF Len(s) > 0 /\ s[Len(s)] = "/"
  THEN StripTrailingSlashes(SubSeq(s, 1, Len(s) - 1)) ELSE s

resolveDomain(domain) ==
  IF domain = LarkName THEN LarkDomainLark
  ELSE IF domain = FeishuName THEN LarkDomainFeishu
  ELSE StripTrailingSlashes(domain)

\* resolveFeishuCredentials(cfg) returned null
NoCreds == [type |-> "null"]

BaseCreds == [appId |-> "cli_a", appSecret |-> "s1", domain |-> FeishuName]

\* what resolveFeishuCredentials(cfg) returns for the configs the callers pass:
\* null, or credentials that differ from one another in one field each
Resolutions ==
  <<NoCreds,
    BaseCreds,
    [BaseCreds EXCEPT !.appId = "cli_b"],
    [BaseCreds EXCEPT !.appSecret = "s2"],
    [BaseCreds EXCEPT !.domain = LarkName],
    [BaseCreds EXCEPT !.domain = CustomUrlSlashes]>>

\* the cache test compares the app id and the secret only
CacheHitIgnoringDomain(creds) ==
  /\ cachedClient # NoClient
  /\ cachedConfig # NoConfig
  /\ cachedConfig.appId = creds.appId
  /\ cachedConfig.appSecret = creds.appSecret

CacheHit(creds) ==
  /\ cachedClient # NoClient
  /\ cachedConfig # NoConfig
  /\ cachedConfig.appId = creds.appId
  /\ cachedConfig.appSecret = creds.appSecret
  /\ cachedConfig.domain = creds.domain

\* new Lark.Client({ appId, appSecret, appType, domain }): a new object each time
NewClient(creds) ==
  [id |-> clients + 1,
   appId |-> creds.appId,
   appSecret |-> creds.appSecret,
   appType |-> "SelfBuild",
   domain |-> resolveDomain(creds.domain)]

\* createFeishuClient on the resolved credentials: whether it threw, what it
\* returned, the cache it leaves and the number of clients it constructed
createFeishuClient(creds) ==
  IF creds = NoCreds
  THEN [threw |-> TRUE,
        message |-> "Feishu credentials not configured (appId, appSecret required)",
        result |-> NoClient,
        client |-> cachedClient, config |-> cachedConfig, built |-> 0]
  ELSE IF CacheHit(creds)
  THEN [threw |-> FALSE, message |-> "",
        result |-> cachedClient,
        client |-> cachedClient, config |-> cachedConfig, built |-> 0]
  ELSE [threw |-> FALSE, message |-> "",
        result |-> NewClient(creds),
        client |-> NewClient(creds),
        config |-> [appId |-> creds.appId, appSecret |-> creds.appSecret,
                    domain |-> creds.domain],
        built |-> 1]

\* the effect of one createFeishuClient call on the module state
Called(creds) ==
  LET r == createFeishuClient(creds)
  IN /\ cachedClient' = r.client
     /\ cachedConfig' = r.config
     /\ clients' = clients + r.built
     /\ fcall' = [made |-> TRUE, creds |-> creds, threw |-> r.threw,
                  result |-> r.result,
                  client0 |-> cachedClient, config0 |-> cachedConfig,
                  client1 |-> r.client, config1 |-> r.config,
                  clients0 |-> clients, after |-> fop]

\* a caller outside perm.ts (probe.ts, send.ts) asks for the client
CreateFeishuClient ==
  /\ fcount < MaxCalls
  /\ \E i \in DOMAIN Resolutions : Called(Resolutions[i])
  /\ fop' = "create"
  /\ fcount' = fcount + 1
  /\ UNCHANGED <<api, regpc, tools, flogs, fexec, cmdVars, patchVars, statusVars,
                 normVars>>

ClearClientCache ==
  /\ fcount < MaxCalls
  /\ cachedClient' = NoClient
  /\ cachedConfig' = NoConfig
  /\ fop' = "clear"
  /\ fcount' = fcount + 1
  /\ UNCHANGED <<clients, fcall, api, regpc, tools, flogs, fexec, cmdVars, patchVars,
                 statusVars, normVars>>

(***************************************************************************)
(* extensions/feishu/src/perm.ts: the feishu_perm tool                     *)
(***************************************************************************)
\* api.config?.channels?.feishu: missing, or its appId, appSecret and tools
\* ("" is an option that is not set, {} a tools object that is not set)
FeishuApis ==
  <<NoFeishu,
    [present |-> TRUE, appId |-> "", appSecret |-> "s1", tools |-> [perm |-> TRUE]],
    [present |-> TRUE, appId |-> "cli_a", appSecret |-> "", tools |-> [perm |-> TRUE]],
    [present |-> TRUE, appId |-> "cli_a", appSecret |-> "s1", tools |-> EmptyObj],
    [present |-> TRUE, appId |-> "cli_a", appSecret |-> "s1", tools |-> [perm |-> FALSE]],
    [present |-> TRUE, appId |-> "cli_a", appSecret |-> "s1", tools |-> [perm |-> TRUE]]>>

\* !feishuCfg?.appId || !feishuCfg?.appSecret
NoAppCredentials(a) == ~a.present \/ a.appId = "" \/ a.appSecret = ""

\* the perm tool is on unless the config turns it off
resolveToolsConfigDefaultOn(toolsCfg) == Spread([perm |-> TRUE], toolsCfg)

\* resolveToolsConfig: the configured tools over the defaults, perm off by default
resolveToolsConfig(toolsCfg) == Spread([perm |-> FALSE], toolsCfg)

registerFeishuPermTools ==
  /\ regpc = "pending"
  /\ regpc' = "done"
  /\ IF NoAppCredentials(api)
     THEN /\ flogs' = Append(flogs, "debug: Feishu credentials not configured, skipping perm tools")
          /\ tools' = tools
     ELSE IF ~resolveToolsConfig(api.tools)["perm"]
     THEN /\ flogs' = Append(flogs, "debug: perm tool disabled in config (default: false)")
          /\ tools' = tools
     ELSE /\ tools' = Append(tools, "feishu_perm")
          /\ flogs' = Append(flogs, "info: Registered feishu_perm tool")
  /\ UNCHANGED <<cachedClient, cachedConfig, clients, fcall, fop, api, fexec, fcount,
                 cmdVars, patchVars, statusVars, normVars>>

\* the permission API answers with code 0, with another code, or the request fails
ApiResponses == {"ok", "code", "reject"}

\* p.action: the three actions of the schema and one that is none of them
PermActions == {"list", "add", "remove", "share"}

\* one request to the permission API and what the function does with the answer:
\* the calls made, and either the value returned or the error thrown
Requested(call, response, data) ==
  IF response = "reject"
  THEN [calls |-> <<call>>, thrown |-> TRUE, error |-> FALSE, text |-> "request failed"]
  ELSE IF response = "code"
  THEN [calls |-> <<call>>, thrown |-> TRUE, error |-> FALSE, text |-> "res.msg"]
  ELSE [calls |-> <<call>>, thrown |-> FALSE, error |-> FALSE, text |-> data]

listMembers(response) == Requested("drive.permissionMember.list", response, "members")

addMember(response) == Requested("drive.permissionMember.create", response, "success, member")

removeMember(response) == Requested("drive.permissionMember.delete", response, "success")

\* the try block of execute, given what getClient() did: the calls made and
\* either the error thrown or the payload returned ({ error } in the default case)
ExecuteTry(action, got, response) ==
  IF got.threw
  THEN [calls |-> << >>, thrown |-> TRUE, error |-> FALSE, text |-> got.message]
  ELSE IF action = "list" THEN listMembers(response)
  ELSE IF action = "add" THEN addMember(response)
  ELSE IF action = "remove" THEN removeMember(response)
  ELSE [calls |-> << >>, thrown |-> FALSE, error |-> TRUE, text |-> "Unknown action"]

\* execute without its catch block: the error leaves the handler
ExecuteNoCatch(action, got, response) ==
  LET run == ExecuteTry(action, got, response)
  IN IF run.thrown
     THEN [outcome |-> "threw", error |-> TRUE, text |-> run.text, calls |-> run.calls]
     ELSE [outcome |-> "returned", error |-> run.error, text |-> run.text,
           calls |-> run.calls]

\* execute: json(result) from the try block, json({ error }) from the default
\* case and from the catch block
ExecuteOutcome(action, got, response) ==
  LET run == ExecuteTry(action, got, response)
  IN IF run.thrown
     THEN [outcome |-> "returned", error |-> TRUE, text |-> run.text, calls |-> run.calls]
     ELSE [outcome |-> "returned", error |-> run.error, text |-> run.text,
           calls |-> run.calls]

\* the gateway calls the registered tool
Execute ==
  /\ fcount < MaxCalls
  /\ \E i \in DOMAIN tools : tools[i] = "feishu_perm"
  /\ \E action \in PermActions, i \in DOMAIN Resolutions, response \in ApiResponses :
       LET got == createFeishuClient(Resolutions[i])
           out == ExecuteOutcome(action, got, response)
       IN /\ Called(Resolutions[i])
          /\ fexec' = [made |-> TRUE, action |-> action, clientThrew |-> got.threw,
                       response |-> IF out.calls = << >> THEN "none" ELSE response,
                       outcome |-> out.outcome, error |-> out.error,
                       text |-> out.text, calls |-> out.calls]
  /\ fop' = "execute"
  /\ fcount' = fcount + 1
  /\ UNCHANGED <<api, regpc, tools, flogs, cmdVars, patchVars, statusVars, normVars>>

FeishuInit ==
  /\ disk = [exists |-> FALSE, valid |-> TRUE, issues |-> << >>, config |-> EmptyObj]
  /\ CmdIdle
  /\ PatchIdle
  /\ StatusIdle
  /\ NormIdle
  /\ CacheEmpty
  /\ \E i \in DOMAIN FeishuApis : api = FeishuApis[i]
  /\ regpc = "pending"
  /\ tools = << >>
  /\ flogs = << >>
  /\ fexec = NoExec
  /\ fcount = 0

FeishuNext ==
  \/ CreateFeishuClient
  \/ ClearClientCache
  \/ registerFeishuPermTools
  \/ Execute

FeishuSpec == FeishuInit /\ [][FeishuNext]_vars

(***************************************************************************)
(* Where the patch functions keep an account                               *)
(***************************************************************************)
\* the account id the last operation was about
LastKey == AccountKey(plast.account)

\* the last two operations were about the same account
SameAccount == AccountKey(pprev.account) = AccountKey(plast.account)

\* the record the add path merges the account's fields into
AddRecord(doc, kind, accountKey) ==
  IF kind = "whatsapp" \/ accountKey # DEFAULT_ACCOUNT_ID
  THEN Account(doc, kind, accountKey)
  ELSE Section(doc, kind)

\* TRUE when a disable of the account, applied to shape, writes the section-level flag
DisableIsFlat(shape, kind, accountKey) ==
  /\ kind # "whatsapp"
  /\ accountKey = DEFAULT_ACCOUNT_ID
  /\ ~HasAccounts(shape, kind)

\* the record of doc holding the enabled flag a disable applied to shape writes
DisableRecord(shape, doc, kind, accountKey) ==
  IF DisableIsFlat(shape, kind, accountKey)
  THEN Section(doc, kind)
  ELSE Account(doc, kind, accountKey)

\* the record fields an add request names, by the option given for each
RequestedFields(kind, params) ==
  {f \in {"name"} : Len(params.name) > 0}
  \cup (CASE kind = "whatsapp" -> {f \in {"authDir"} : params.authDir # ""}
          [] kind = "telegram" ->
               {f \in {"botToken"} : params.token # ""}
               \cup {f \in {"tokenFile"} : params.tokenFile # ""}
          [] kind = "discord" -> {f \in {"token"} : params.token # ""}
          [] kind = "slack" ->
               {f \in {"botToken"} : params.botToken # ""}
               \cup {f \in {"appToken"} : params.appToken # ""}
          [] kind = "signal" ->
               {f \in {"account"} : params.signalNumber # ""}
               \cup {f \in {"cliPath"} : params.cliPath # ""}
               \cup {f \in {"httpUrl"} : params.httpUrl # ""}
               \cup {f \in {"httpHost"} : params.httpHost # ""}
               \cup {f \in {"httpPort"} : params.httpPort # ""}
          [] kind = "imessage" ->
               {f \in {"cliPath"} : params.cliPath # ""}
               \cup {f \in {"dbPath"} : params.dbPath # ""}
               \cup {f \in {"service"} : params.service # ""}
               \cup {f \in {"region"} : params.region # ""})

\* the section-level credential and name fields of a kind's default account
SingletonFields(kind) ==
  CASE kind = "whatsapp" -> {}
    [] kind = "telegram" -> {"botToken", "tokenFile", "name"}
    [] kind = "discord"  -> {"token", "name"}
    [] kind = "slack"    -> {"botToken", "appToken", "name"}
    [] kind = "signal"   -> {"account", "cliPath", "httpUrl", "httpHost", "httpPort", "name"}
    [] kind = "imessage" -> {"cliPath", "dbPath", "service", "region", "name"}

\* record r keeps field f of record q: same presence, same value
Keeps(q, r, f) ==
  /\ (f \in DOMAIN q) = (f \in DOMAIN r)
  /\ f \in DOMAIN q => r[f] = q[f]

(***************************************************************************)
(* Properties of the patch functions                                       *)
(***************************************************************************)

\* C4: add is idempotent: applying applyProviderAccountConfig again with the same
\* provider, account id and parameters to the document an add produced yields that
\* same document.
AddIsIdempotent ==
  plast.op = "add" =>
    applyProviderAccountConfig(pdoc, pprovider, plast.account, plast.params) = pdoc

\* an add that changed the document: it wrote a credential
AddIsIdempotentWitness ==
  /\ plast.op = "add"
  /\ pdoc # pbefore
  /\ RequestedFields(pprovider, plast.params) \ {"name"} # {}
  /\ applyProviderAccountConfig(pdoc, pprovider, plast.account, plast.params) = pdoc

\* C5: add merges and does not replace: every field of the account's record, other
\* than the enabled flag that an add always sets, that the request does not name
\* keeps its value; adding with only a name leaves an existing token unchanged.
AddMerges ==
  plast.op = "add" =>
    \A f \in DOMAIN AddRecord(pbefore, pprovider, LastKey) \ {"enabled"} :
      f \notin RequestedFields(pprovider, plast.params) =>
        Keeps(AddRecord(pbefore, pprovider, LastKey),
              AddRecord(pdoc, pprovider, LastKey), f)

\* an add with only a name, to a telegram account that already has a token
AddMergesWitness ==
  /\ plast.op = "add"
  /\ pprovider = "telegram"
  /\ plast.params = Spread(NoParams, [name |-> BotName])
  /\ "botToken" \in DOMAIN AddRecord(pbefore, "telegram", LastKey)
  /\ AddRecord(pdoc, "telegram", LastKey)["botToken"] = "old"
  /\ AddRecord(pdoc, "telegram", LastKey)["name"] = Trim(BotName)

NamedAccountExists(doc, kind) ==
  \E id \in DOMAIN Accounts(doc, kind) : id # DEFAULT_ACCOUNT_ID

\* C6: default-vs-named exclusivity: a default-account operation (add, apply name,
\* disable, delete) of a non-whatsapp provider on a section with no accounts map
\* writes section-level fields and creates no accounts entry; once the section has
\* an accounts map with a named account, it reads and writes accounts[DEFAULT] and
\* leaves the section-level singleton fields and enabled flag alone.
DefaultVsNamedExclusive ==
  (/\ plast.op \in {"add", "name", "disable", "delete"}
   /\ pprovider # "whatsapp"
   /\ LastKey = DEFAULT_ACCOUNT_ID) =>
    LET p == pprovider
        before == Section(pbefore, p)
        after == Section(pdoc, p)
        entry == Account(pdoc, p, DEFAULT_ACCOUNT_ID)
    IN /\ ~HasAccounts(pbefore, p) =>
            /\ ~HasAccounts(pdoc, p)
            /\ plast.op = "add" => "enabled" \in DOMAIN after /\ after["enabled"] = TRUE
            /\ plast.op = "disable" => "enabled" \in DOMAIN after /\ after["enabled"] = FALSE
       /\ (HasAccounts(pbefore, p) /\ NamedAccountExists(pbefore, p)) =>
            /\ \A f \in SingletonFields(p) \cup {"enabled"} : Keeps(before, after, f)
            /\ plast.op = "add" => "enabled" \in DOMAIN entry /\ entry["enabled"] = TRUE
            /\ plast.op = "disable" => "enabled" \in DOMAIN entry /\ entry["enabled"] = FALSE
            /\ plast.op = "delete" => DEFAULT_ACCOUNT_ID \notin DOMAIN Accounts(pdoc, p)

\* C8: add followed by disable of the same provider and account leaves the account
\* disabled but configured: the enabled flag the disable writes is false and every
\* field the add left on the account's record, credentials and name, keeps its value.
AddThenDisableKeepsConfig ==
  (pprev.op = "add" /\ plast.op = "disable" /\ SameAccount) =>
    LET p == pprovider
        flag == DisableRecord(pbefore, pdoc, p, LastKey)
        added == AddRecord(pbefore, p, LastKey)
        kept == AddRecord(pdoc, p, LastKey)
    IN /\ "enabled" \in DOMAIN flag
       /\ flag["enabled"] = FALSE
       /\ \A f \in DOMAIN added \ {"enabled", "accounts"} : Keeps(added, kept, f)

\* telegram default, flat section: add with token abc, then disable
AddThenDisableKeepsConfigWitness ==
  /\ pprev.op = "add"
  /\ plast.op = "disable"
  /\ SameAccount
  /\ pprovider = "telegram"
  /\ LastKey = DEFAULT_ACCOUNT_ID
  /\ pprev.params = Spread(NoParams, [token |-> "abc"])
  /\ "telegram" \in DOMAIN pdoc
  /\ ~HasAccounts(pdoc, "telegram")
  /\ pdoc["telegram"]["enabled"] = FALSE
  /\ pdoc["telegram"]["botToken"] = "abc"

\* C9: add followed by delete of the same provider and account leaves the account
\* absent: no accounts[accountId] entry remains; for the default account of a
\* non-whatsapp provider no singleton credential or name field remains on the
\* section; and with no accounts map present the whole provider section is gone.
AddThenDeleteRemoves ==
  (pprev.op = "add" /\ plast.op = "delete" /\ SameAccount) =>
    LET p == pprovider
    IN /\ LastKey \notin DOMAIN Accounts(pdoc, p)
       /\ (p # "whatsapp" /\ LastKey = DEFAULT_ACCOUNT_ID) =>
            /\ SingletonFields(p) \cap DOMAIN Section(pdoc, p) = {}
            /\ ~HasAccounts(pbefore, p) => p \notin DOMAIN pdoc

\* both cases: a flat telegram section removed whole, and a default account deleted
\* from a section that keeps a named account
AddThenDeleteRemovesWitness ==
  /\ pprev.op = "add"
  /\ plast.op = "delete"
  /\ SameAccount
  /\ LastKey = DEFAULT_ACCOUNT_ID
  /\ pprovider = "telegram"
  /\ pprev.params = Spread(NoParams, [token |-> "abc"])
  /\ "botToken" \in DOMAIN Section(pbefore, "telegram")
  /\ \/ ~HasAccounts(pbefore, "telegram") /\ "telegram" \notin DOMAIN pdoc
     \/ /\ NamedAccountExists(pdoc, "telegram")
        /\ "botToken" \notin DOMAIN Section(pdoc, "telegram")

\* C10: adding or updating an account always (re)enables it: after
\* applyProviderAccountConfig the enabled flag a disable of that provider and
\* account writes (section-level for a flat default account, accounts[accountId]
\* otherwise) is not left false.
AddAlwaysEnables ==
  plast.op = "add" =>
    LET flag == DisableRecord(pdoc, pdoc, pprovider, LastKey)
    IN ~("enabled" \in DOMAIN flag /\ flag["enabled"] = FALSE)


(***************************************************************************)
(* Properties of the commands                                              *)
(***************************************************************************)
Declined == \E i \in DOMAIN prompts : prompts[i] = "confirm:no"

ConfigRejected == Len(errors) > 0 /\ errors[1].text = "Config invalid:"

\* the document a successful invocation is to write, from its options and answers
FullyPatched ==
  IF cmd = "remove" THEN deleteAccount(cfg, provider, AccountKey(accountId)) = next
                         \/ setAccountEnabled(cfg, provider, AccountKey(accountId), FALSE) = next
  ELSE IF wizard THEN TRUE
  ELSE next = applyProviderAccountConfig(cfg, normalizeChatProvider(opts.provider),
                                         normalizeAccountId(opts.account), opts)

\* C1: an invocation of add or remove calls writeConfigFile exactly once, with the
\* fully patched document and as its last step, or never: once runtime.exit(1) was
\* called or a confirmation was declined no write has happened and none follows,
\* and an invocation that ended without either has written once.
WriteOnceOrNever ==
  cmd \in {"add", "remove"} =>
    /\ Len(writes) <= 1
    /\ Len(writes) = 1 =>
         /\ pc = "done"
         /\ writes[1] = next
         /\ FullyPatched
         /\ disk.config = next
         /\ exits = 0 /\ errors = << >> /\ ~Declined
    /\ (exits > 0 \/ Declined) => writes = << >>
    /\ (pc = "done" /\ exits = 0 /\ ~Declined /\ ~(cmd = "add" /\ wizard /\ selection = NoSelection))
         => Len(writes) = 1

\* a flag-driven add that wrote the patched document
WriteOnceOrNeverWitness ==
  /\ cmd = "add" /\ ~wizard /\ pc = "done"
  /\ Len(writes) = 1
  /\ writes[1] # cfg
  /\ writes[1] = applyProviderAccountConfig(cfg, provider, accountId, opts)

\* the option combinations the flag-driven add is to reject
ViolatesRequirement(o) ==
  LET p == normalizeChatProvider(o.provider)
      named == normalizeAccountId(o.account) # DEFAULT_ACCOUNT_ID
  IN \/ p = NoProvider
     \/ p = "telegram" /\ ~o.useEnv /\ o.token = "" /\ o.tokenFile = ""
     \/ p = "discord" /\ ~o.useEnv /\ o.token = ""
     \/ p = "slack" /\ ~o.useEnv /\ ~(o.botToken # "" /\ o.appToken # "")
     \/ /\ p = "signal"
        /\ \A f \in {"signalNumber", "httpUrl", "httpHost", "httpPort", "cliPath"} : o[f] = ""
     \/ p \in {"telegram", "discord", "slack"} /\ o.useEnv /\ named

\* C2: a flag-driven add whose options violate a provider requirement never calls
\* writeConfigFile and ends with one error message and runtime.exit(1); an add
\* whose options satisfy the requirements ends with the single write and no exit.
FlagAddValidates ==
  (cmd = "add" /\ ~wizard /\ pc # "requireValidConfig" /\ ~ConfigRejected) =>
    IF ViolatesRequirement(opts)
    THEN /\ writes = << >>
         /\ pc \in {"addFlags", "done"}
         /\ pc = "done" => exits = 1 /\ Len(errors) = 1
    ELSE /\ exits = 0 /\ errors = << >>
         /\ pc \in {"addFlags", "write", "done"}
         /\ pc = "done" => Len(writes) = 1

\* slack with useEnv and a named account was rejected before any write
FlagAddValidatesWitness ==
  /\ cmd = "add" /\ ~wizard /\ pc = "done"
  /\ normalizeChatProvider(opts.provider) = "slack"
  /\ opts.useEnv
  /\ normalizeAccountId(opts.account) = "work"
  /\ exits = 1 /\ Len(errors) = 1 /\ writes = << >>
  /\ disk.config = cfg

\* C3: when the config snapshot exists and is not valid, list, add and remove report
\* the itemized issues, call runtime.exit(1) and do nothing else: no listing, no
\* prompt, no write; a snapshot that does not exist is not reported as invalid and
\* the command goes on with the snapshot's config.
InvalidConfigStops ==
  (cmd # "idle" /\ pc # "requireValidConfig") =>
    /\ (disk.exists /\ ~disk.valid) =>
         /\ pc = "done"
         /\ exits = 1
         /\ Len(errors) = 2
         /\ errors[1].text = "Config invalid:"
         /\ IF disk.issues # << >> THEN errors[1].items = disk.issues
            ELSE errors[1].items = <<"Unknown validation issue.">>
         /\ logs = << >> /\ prompts = << >> /\ writes = << >>
    /\ ~disk.exists => ~ConfigRejected /\ cfg = disk.config
    /\ ConfigRejected => disk.exists /\ ~disk.valid

\* a remove stopped by an invalid config with an itemized issue
InvalidConfigStopsWitness ==
  /\ cmd = "remove" /\ pc = "done"
  /\ disk.exists /\ ~disk.valid /\ disk.issues = <<Issue>>
  /\ exits = 1 /\ errors[1].items = <<Issue>>
  /\ writes = << >>

NoEmptyAccountsMap(doc) ==
  \A key \in DOMAIN doc :
    "accounts" \in DOMAIN doc[key] => DOMAIN doc[key]["accounts"] # {}

\* C7: no empty accounts map is ever persisted: the config file and every document
\* passed to writeConfigFile hold, for every section, no accounts key or an accounts
\* map with at least one entry; deleting the only entry of a map leaves the key absent.
NoEmptyAccountsPersisted ==
  /\ NoEmptyAccountsMap(disk.config)
  /\ \A i \in DOMAIN writes : NoEmptyAccountsMap(writes[i])

\* the only entry of an accounts map was deleted and the section written without the key
NoEmptyAccountsPersistedWitness ==
  /\ cmd = "remove" /\ opts.delete /\ pc = "done"
  /\ Len(writes) = 1
  /\ DOMAIN Accounts(cfg, provider) = {AccountKey(accountId)}
  /\ provider \in DOMAIN writes[1]
  /\ "accounts" \notin DOMAIN writes[1][provider]

(***************************************************************************)
(* Frame of the patch functions                                            *)
(***************************************************************************)
\* every top-level section but the provider's is the same in both documents
OtherSectionsKept(before, after, kind) ==
  /\ DOMAIN after \ {kind} = DOMAIN before \ {kind}
  /\ \A k \in DOMAIN before \ {kind} : after[k] = before[k]

\* every accounts entry of the provider but accountKey's is the same in both documents
OtherAccountsKept(before, after, kind, accountKey) ==
  /\ DOMAIN Accounts(after, kind) \ {accountKey} = DOMAIN Accounts(before, kind) \ {accountKey}
  /\ \A a \in DOMAIN Accounts(before, kind) \ {accountKey} :
       Accounts(after, kind)[a] = Accounts(before, kind)[a]

\* every field of the provider's section but those of fields is the same in both
SectionFieldsKept(before, after, kind, fields) ==
  \A f \in (DOMAIN Section(before, kind) \cup DOMAIN Section(after, kind)) \ fields :
    Keeps(Section(before, kind), Section(after, kind), f)

\* C11: an add for (provider, account) leaves every other provider section, every
\* unrelated top-level section and every other accounts entry of the provider as
\* they were, and for a named account of a non-whatsapp provider also every
\* section-level field of the provider, the section-level enabled flag included.
AddPreservesUnrelated ==
  plast.op = "add" =>
    /\ OtherSectionsKept(pbefore, pdoc, pprovider)
    /\ OtherAccountsKept(pbefore, pdoc, pprovider, LastKey)
    /\ (pprovider # "whatsapp" /\ LastKey # DEFAULT_ACCOUNT_ID) =>
         SectionFieldsKept(pbefore, pdoc, pprovider, {"accounts"})

(***************************************************************************)
(* Properties of providersRemoveCommand                                    *)
(***************************************************************************)
\* the document a disable of the chosen account produces
DisabledDoc == setAccountEnabled(cfg, provider, AccountKey(accountId), FALSE)

\* the document a delete of the chosen account produces
DeletedDoc == deleteAccount(cfg, provider, AccountKey(accountId))

\* C12: flag-driven remove: without a recognized provider the command reports an
\* error, exits with 1 and writes nothing; without the delete flag the disable is
\* written only after the confirmation was answered yes, and a no answer ends the
\* command with no write; a delete is written only when the delete flag was given,
\* and then without a prompt.
FlagRemoveConfirms ==
  (cmd = "remove" /\ ~wizard /\ pc # "requireValidConfig" /\ ~ConfigRejected) =>
    /\ normalizeChatProvider(opts.provider) = NoProvider =>
         /\ writes = << >> /\ prompts = << >>
         /\ pc \in {"removeFlags", "done"}
         /\ pc = "done" => exits = 1 /\ Len(errors) = 1
    /\ normalizeChatProvider(opts.provider) # NoProvider => exits = 0 /\ errors = << >>
    /\ (~opts.delete /\ pc = "write") => prompts = <<"confirm:yes">> /\ next = DisabledDoc
    /\ (~opts.delete /\ writes # << >>) =>
         /\ prompts = <<"confirm:yes">>
         /\ writes = <<DisabledDoc>>
    /\ Declined => writes = << >> /\ pc = "done" /\ ~opts.delete
    /\ (opts.delete /\ writes # << >>) => writes = <<DeletedDoc>> /\ prompts = << >>

\* a disable written after the confirmation was answered yes
FlagRemoveConfirmsWitness ==
  /\ cmd = "remove" /\ ~wizard /\ ~opts.delete /\ pc = "done"
  /\ prompts = <<"confirm:yes">>
  /\ writes = <<DisabledDoc>>
  /\ DisabledDoc # cfg
  /\ DisabledDoc # DeletedDoc

\* C13: wizard remove asks for the provider, then the account, then the yes/no
\* confirmation, in that order, before any write; a no answer ends with no write;
\* and whatever the options, the document written is the disable of the chosen
\* account: no account entry and no provider section is deleted.
WizardRemoveOnlyDisables ==
  (cmd = "remove" /\ wizard /\ pc # "requireValidConfig" /\ ~ConfigRejected) =>
    /\ (pc = "write" \/ writes # << >>) =>
         SubSeq(prompts, 1, 4) = <<"intro", "provider", "account", "confirm:yes">>
    /\ Declined => writes = << >> /\ pc = "done"
    /\ writes # << >> => writes = <<DisabledDoc>>

(***************************************************************************)
(* Properties of the add wizard                                            *)
(***************************************************************************)
\* the document after the names entered for the first i selected providers were
\* applied to the document setupProviders returned; blank answers apply nothing
RECURSIVE NamedUpTo(_)
NamedUpTo(i) ==
  IF i = 0 THEN setupProviders(cfg, selection, 1)
  ELSE LET entered == EnteredNames[prompts[3 + i]]
           chosen == selection.providers[i]
       IN IF entered \in {NoName, BlankName} THEN NamedUpTo(i - 1)
          ELSE applyAccountName(NamedUpTo(i - 1), chosen,
                                SelectedAccount(selection, chosen), entered)

\* C14: wizard add never writes partially: writeConfigFile is called only after the
\* provider setup step and, when names were asked for, after the name prompt of every
\* selected provider; with no provider selected the command ends without a write;
\* and the document written is the one setupProviders returned with a display name
\* applied exactly for the selected providers whose entered name is not blank.
WizardAddWritesWhole ==
  (cmd = "add" /\ wizard /\ pc # "requireValidConfig" /\ ~ConfigRejected) =>
    /\ (pc \in {"addIntro", "setupProviders"} \/ selection = NoSelection) => writes = << >>
    /\ (selection = NoSelection /\ pc \notin {"addIntro", "setupProviders"}) =>
         pc = "done" /\ prompts = <<"intro", "setup", "outro">>
    /\ (pc = "write" \/ writes # << >>) =>
         /\ SubSeq(prompts, 1, 2) = <<"intro", "setup">>
         /\ prompts[3] \in {"names:yes", "names:no"}
         /\ LET asked == IF prompts[3] = "names:yes" THEN Len(selection.providers) ELSE 0
            IN /\ Len(prompts) = 3 + asked + (IF pc = "done" THEN 1 ELSE 0)
               /\ \A i \in 1..asked : prompts[3 + i] \in DOMAIN EnteredNames
               /\ next = NamedUpTo(asked)
    /\ writes # << >> => writes = <<next>> /\ pc = "done"

\* two providers were set up, a name entered for the second only, and the whole written
WizardAddWritesWholeWitness ==
  /\ cmd = "add" /\ wizard /\ pc = "done"
  /\ Len(selection.providers) = 2
  /\ prompts = <<"intro", "setup", "names:yes", "blank", "name", "outro">>
  /\ writes = <<next>>
  /\ "name" \notin DOMAIN Section(next, selection.providers[1])
  /\ Section(next, selection.providers[2])["name"] = Trim(BotName)

(***************************************************************************)
(* Properties of providersStatusCommand                                    *)
(***************************************************************************)
\* C15: providersStatusCommand makes exactly one gateway request, with no retry, and
\* ends in exactly one of two outcomes: one log call carrying the JSON payload or all
\* the rendered lines, or the error 'Gateway not reachable' followed by
\* runtime.exit(1); when the request fails or times out, or building the lines
\* fails, nothing has been logged.
StatusOneOutcome ==
  cmd = "status" =>
    /\ Len(requests) = (IF pc = "callGateway" THEN 0 ELSE 1)
    /\ Len(logs) <= 1 /\ exits <= 1
    /\ (pc = "catch" \/ exits > 0 \/ errors # << >>) => logs = << >>
    /\ pc = "done" =>
         \/ Len(logs) = 1 /\ exits = 0 /\ errors = << >>
         \/ logs = << >> /\ exits = 1 /\ errors = <<Err("Gateway not reachable")>>
    /\ (pc = "done" /\ ~opts.json /\ payload.type \in {"null", "undefined"}) => exits = 1
    /\ (pc = "done" /\ opts.json /\ Len(logs) = 1) => logs[1] = [json |-> payload]

\* a response whose only telegram record is null ended with the error and no log
StatusOneOutcomeWitness ==
  /\ cmd = "status" /\ pc = "done" /\ ~opts.json
  /\ Prop(payload, "telegramAccounts").type = "array"
  /\ Len(Prop(payload, "telegramAccounts").value) = 1
  /\ Prop(payload, "telegramAccounts").value[1].type = "null"
  /\ Len(requests) = 1
  /\ logs = << >> /\ exits = 1 /\ Len(errors) = 1

(***************************************************************************)
(* Properties of providersListCommand                                      *)
(***************************************************************************)
\* C16: a failure of the usage fetch is not fatal to providersListCommand: in text
\* and in json output, with usage enabled, the command does not abort and ends with
\* the account and auth-profile listing rendered.
ListUsageFailureNonFatal ==
  (cmd = "list" /\ pc # "requireValidConfig" /\ ~ConfigRejected) =>
    /\ pc # "threw"
    /\ pc = "done" => \E i \in DOMAIN logs : logs[i] \in {"listing", "payload"}

(***************************************************************************)
(* Properties of normalizeChatProvider                                     *)
(***************************************************************************)
\* a and b are the same string when the case of the letters is ignored
SameIgnoringCase(a, b) ==
  /\ Len(a) = Len(b)
  /\ \A i \in DOMAIN a : a[i] = b[i] \/ UpperChar(a[i]) = b[i] \/ a[i] = UpperChar(b[i])

\* word names the kind: its name, or the alias imsg for imessage, in any case
Names(word, k) ==
  \/ SameIgnoringCase(word, ProviderChars[k])
  \/ k = "imessage" /\ SameIgnoringCase(word, <<"i","m","s","g">>)

\* raw is a word naming the kind between two runs of whitespace
NamesPadded(raw, k) ==
  \E i \in 0..Len(raw), j \in 0..Len(raw) :
    /\ i <= j
    /\ \A n \in 1..i : raw[n] \in WhiteSpace
    /\ \A n \in (j + 1)..Len(raw) : raw[n] \in WhiteSpace
    /\ Names(SubSeq(raw, i + 1, j), k)

\* C17 as claimed: normalizeChatProvider returns one of the six kinds or none; it
\* returns kind K exactly when the input, ignoring case, is K's name or, for
\* imessage, the alias imsg; every other input yields none; and normalizing a
\* returned kind returns the same kind.
NormalizeMatchesNameOnly ==
  nkind # "pending" =>
    /\ nkind \in ChatProviders \cup {NoProvider}
    /\ \A k \in ChatProviders : (nkind = k) <=> Names(nraw, k)
    /\ nagain # "pending" => nagain = nkind

\* C17: normalizeChatProvider returns one of the six kinds or none; it returns kind
\* K exactly when the input, ignoring case and the whitespace around it, is K's name
\* or, for imessage, the alias imsg; every other input, the empty one included,
\* yields none; and normalizing a returned kind returns the same kind.
NormalizeMatchesTrimmedName ==
  nkind # "pending" =>
    /\ nkind \in ChatProviders \cup {NoProvider}
    /\ \A k \in ChatProviders : (nkind = k) <=> NamesPadded(nraw, k)
    /\ nagain # "pending" => nagain = nkind

\* the alias in upper case between whitespace gave imessage, and imessage again
NormalizeMatchesTrimmedNameWitness ==
  /\ nraw = <<"\t", " ", "I", "M", "S", "G", "\n">>
  /\ nkind = "imessage"
  /\ nagain = "imessage"

(***************************************************************************)
(* Frame of delete and of set account enabled                              *)
(***************************************************************************)
\* the last operation deleted the default account of a provider other than whatsapp
DefaultDeleted ==
  plast.op = "delete" /\ pprovider # "whatsapp" /\ LastKey = DEFAULT_ACCOUNT_ID

\* C18: deleting the default account of a non-whatsapp provider whose section has no
\* accounts map, or an empty one, clears the singleton credential and name fields of
\* the section and keeps every other field of it; the section is removed from the
\* document only when no field other than the enabled flag is left after clearing.
DefaultDeleteClearsSingletons ==
  (DefaultDeleted /\ pprovider \in DOMAIN pbefore /\ DOMAIN Accounts(pbefore, pprovider) = {}) =>
    LET left == DOMAIN pbefore[pprovider] \ (SingletonFields(pprovider) \cup {"accounts"})
    IN /\ OtherSectionsKept(pbefore, pdoc, pprovider)
       /\ pprovider \in DOMAIN pdoc =>
            /\ DOMAIN pdoc[pprovider] \cap SingletonFields(pprovider) = {}
            /\ \A f \in left : Keeps(pbefore[pprovider], pdoc[pprovider], f)
       /\ pprovider \notin DOMAIN pdoc => left \subseteq {"enabled"}

\* C19: deleting the default account of a non-whatsapp provider whose section has a
\* non-empty accounts map removes only accounts[default]: every named account entry
\* is unchanged and every section-level field other than accounts keeps its value.
DefaultDeleteRemovesEntryOnly ==
  (DefaultDeleted /\ DOMAIN Accounts(pbefore, pprovider) # {}) =>
    /\ OtherSectionsKept(pbefore, pdoc, pprovider)
    /\ DEFAULT_ACCOUNT_ID \notin DOMAIN Accounts(pdoc, pprovider)
    /\ OtherAccountsKept(pbefore, pdoc, pprovider, DEFAULT_ACCOUNT_ID)
    /\ SectionFieldsKept(pbefore, pdoc, pprovider, {"accounts"})

\* C20: set account enabled writes exactly one flag: accounts[accountId].enabled for
\* whatsapp; for the other providers the section-level enabled flag when the account
\* is the default one and the section has no accounts map, accounts[accountId].enabled
\* otherwise; every other field of that entry, of the section and of the rest of the
\* document keeps its value.
DisableWritesOneFlag ==
  plast.op = "disable" =>
    /\ OtherSectionsKept(pbefore, pdoc, pprovider)
    /\ IF /\ pprovider # "whatsapp"
          /\ LastKey = DEFAULT_ACCOUNT_ID
          /\ ~(pprovider \in DOMAIN pbefore /\ "accounts" \in DOMAIN pbefore[pprovider])
       THEN /\ "enabled" \in DOMAIN Section(pdoc, pprovider)
            /\ pdoc[pprovider]["enabled"] = FALSE
            /\ SectionFieldsKept(pbefore, pdoc, pprovider, {"enabled"})
       ELSE /\ "enabled" \in DOMAIN Account(pdoc, pprovider, LastKey)
            /\ pdoc[pprovider]["accounts"][LastKey]["enabled"] = FALSE
            /\ \A f \in (DOMAIN Account(pbefore, pprovider, LastKey)
                         \cup DOMAIN Account(pdoc, pprovider, LastKey)) \ {"enabled"} :
                 Keeps(Account(pbefore, pprovider, LastKey),
                       Account(pdoc, pprovider, LastKey), f)
            /\ OtherAccountsKept(pbefore, pdoc, pprovider, LastKey)
            /\ SectionFieldsKept(pbefore, pdoc, pprovider, {"accounts"})

\* the enabled default account of a flat section with a name and another field was
\* disabled: the flag is on the section, no accounts map was created
DisableWritesOneFlagWitness ==
  /\ plast.op = "disable" /\ pprovider = "telegram" /\ LastKey = DEFAULT_ACCOUNT_ID
  /\ "accounts" \notin DOMAIN Section(pbefore, pprovider)
  /\ {"botToken", "name", "dmPolicy", "enabled"} \subseteq DOMAIN Section(pbefore, pprovider)
  /\ pbefore[pprovider]["enabled"] = TRUE
  /\ pdoc[pprovider] = Spread(pbefore[pprovider], [enabled |-> FALSE])

(***************************************************************************)
(* Fields written by applyProviderAccountConfig                            *)
(***************************************************************************)
\* the credential fields of a provider's account record
OwnFields(kind) ==
  CASE kind = "whatsapp" -> {"authDir"}
    [] kind = "telegram" -> {"tokenFile", "botToken"}
    [] kind = "discord"  -> {"token"}
    [] kind = "slack"    -> {"botToken", "appToken"}
    [] kind = "signal"   -> {"account", "cliPath", "httpUrl", "httpHost", "httpPort"}
    [] kind = "imessage" -> {"cliPath", "dbPath", "service", "region"}

\* the fields of record r that record q does not hold with the same value
ChangedFields(q, r) == {f \in DOMAIN r : f \notin DOMAIN q \/ r[f] # q[f]}

\* the fields the last add changed in the record of its account
AddChanged ==
  ChangedFields(AddRecord(pbefore, pprovider, LastKey), AddRecord(pdoc, pprovider, LastKey))

\* the add changes credential fields of its own provider only
AddWritesOwnFieldsOnly ==
  plast.op = "add" =>
    /\ AddChanged \subseteq OwnFields(pprovider) \cup {"enabled", "name", "accounts"}
    /\ DOMAIN AddRecord(pdoc, pprovider, LastKey)
         \subseteq DOMAIN AddRecord(pbefore, pprovider, LastKey)
                   \cup OwnFields(pprovider) \cup {"enabled", "name", "accounts"}

\* one telegram add changes at most one of tokenFile and botToken, tokenFile when
\* both options are given
AddWritesOneTelegramToken ==
  (plast.op = "add" /\ pprovider = "telegram") =>
    /\ ~({"tokenFile", "botToken"} \subseteq AddChanged)
    /\ (plast.params.tokenFile # "" /\ plast.params.token # "") => "botToken" \notin AddChanged

\* with useEnv no token field is changed, whatever the account id
AddWithEnvWritesNoToken ==
  (plast.op = "add" /\ plast.params.useEnv /\ pprovider \in {"telegram", "discord", "slack"}) =>
    AddChanged \cap {"tokenFile", "botToken", "token", "appToken"} = {}

RecordsAt(data, key) ==
  IF data.type = "object" /\ key \in DOMAIN data.value /\ data.value[key].type = "array"
  THEN data.value[key].value
  ELSE << >>

\* the number of records under the response keys before the k-th
RECURSIVE RecordsBefore(_, _)
RecordsBefore(data, k) ==
  IF k <= 1 THEN 0
  ELSE RecordsBefore(data, k - 1) + Len(RecordsAt(data, StatusKeys[k - 1].key))

\* TRUE when the record holds a boolean under the field
HoldsBoolean(record, field) ==
  /\ record.type = "object"
  /\ field \in DOMAIN record.value
  /\ record.value[field].type = "boolean"

\* the status flags in the order of their bits; the probe flag is the ok of probe
StatusFlags ==
  <<[of |-> "self", field |-> "enabled", yes |-> "enabled", no |-> "disabled"],
    [of |-> "self", field |-> "configured", yes |-> "configured", no |-> "not configured"],
    [of |-> "self", field |-> "linked", yes |-> "linked", no |-> "not linked"],
    [of |-> "self", field |-> "running", yes |-> "running", no |-> "stopped"],
    [of |-> "probe", field |-> "ok", yes |-> "works", no |-> "probe failed"]>>

\* the record a flag is read from: the account record, or its probe object
FlagHolder(record, flag) ==
  IF flag.of = "self" THEN record
  ELSE IF record.type = "object" /\ "probe" \in DOMAIN record.value
       THEN record.value["probe"] ELSE Undefined

\* the bits of a line are those of the flags the record holds a boolean for, in order
BitsMatch(bits, record) ==
  LET held == SelectSeq(StatusFlags,
                        LAMBDA flag : HoldsBoolean(FlagHolder(record, flag), flag.field))
  IN /\ Len(bits) = Len(held)
     /\ \A n \in DOMAIN held :
          bits[n] = IF FlagHolder(record, held[n]).value[held[n].field].value
                    THEN held[n].yes ELSE held[n].no

AccountExists(doc, kind, accountKey) ==
  /\ kind \in DOMAIN doc
  /\ \/ accountKey \in DOMAIN Accounts(doc, kind)
     \/ kind # "whatsapp" /\ accountKey = DEFAULT_ACCOUNT_ID

\* C23: deleting an account that does not exist changes nothing: when the document
\* has no section for the provider, or the section holds no such account, the delete
\* returns the document it was given, creating no section and no accounts key; and a
\* second delete of the same account returns the document the first returned.
DeleteMissingChangesNothing ==
  plast.op = "delete" =>
    /\ ~AccountExists(pbefore, pprovider, LastKey) => pdoc = pbefore
    /\ (pprev.op = "delete" /\ SameAccount) => pdoc = pbefore

\* C24: a disable never creates an account: the account ids of the provider's
\* accounts map and the provider sections of the document are the same after
\* setAccountEnabled(provider, false) as before it.
DisableCreatesNothing ==
  plast.op = "disable" =>
    /\ DOMAIN pdoc = DOMAIN pbefore
    /\ DOMAIN Accounts(pdoc, pprovider) = DOMAIN Accounts(pbefore, pprovider)

(***************************************************************************)
(* Properties of the Feishu client cache                                   *)
(***************************************************************************)
\* the three fields createFeishuClient compares
SameCredentials(a, b) ==
  /\ a.appId = b.appId
  /\ a.appSecret = b.appSecret
  /\ a.domain = b.domain

\* the client was constructed from exactly these credentials
BuiltFrom(client, creds) ==
  /\ client.appId = creds.appId
  /\ client.appSecret = creds.appSecret
  /\ client.domain = resolveDomain(creds.domain)

\* the call constructed a client no earlier call had returned
BuiltNew(c) == c.result # NoClient /\ c.result.id = c.clients0 + 1

\* C25: after any sequence of createFeishuClient and clearClientCache calls the
\* cache is coherent: cachedClient and cachedConfig are both null or both set, and
\* when set the client was built from exactly the cached appId, appSecret and
\* domain; a call returns the cached client only when all three resolved
\* credentials equal cachedConfig and otherwise builds a new client and replaces
\* both; a call that throws for missing credentials leaves the cache unchanged;
\* the call after clearClientCache builds a new client.
ClientCacheCoherent ==
  /\ (cachedClient = NoClient) <=> (cachedConfig = NoConfig)
  /\ cachedClient # NoClient => BuiltFrom(cachedClient, cachedConfig)
  /\ fcall.made =>
       IF fcall.creds = NoCreds
       THEN /\ fcall.threw
            /\ fcall.client1 = fcall.client0
            /\ fcall.config1 = fcall.config0
       ELSE /\ ~fcall.threw
            /\ IF fcall.config0 # NoConfig /\ SameCredentials(fcall.creds, fcall.config0)
               THEN /\ fcall.result = fcall.client0
                    /\ fcall.client1 = fcall.client0
                    /\ fcall.config1 = fcall.config0
               ELSE /\ BuiltNew(fcall)
                    /\ fcall.result # fcall.client0
                    /\ fcall.client1 = fcall.result
                    /\ fcall.config1 = fcall.creds
            /\ fcall.after = "clear" => BuiltNew(fcall)
  /\ fop \in {"create", "execute"} =>
       cachedClient = fcall.client1 /\ cachedConfig = fcall.config1

\* a call found a cached client built for the same app but another domain,
\* built a new client and replaced the cache
ClientCacheCoherentWitness ==
  /\ fop = "create"
  /\ fcall.made
  /\ fcall.creds # NoCreds
  /\ fcall.config0 # NoConfig
  /\ fcall.config0.appId = fcall.creds.appId
  /\ fcall.config0.appSecret = fcall.creds.appSecret
  /\ fcall.config0.domain # fcall.creds.domain
  /\ fcall.result.id = 2
  /\ cachedClient = fcall.result
  /\ cachedConfig = fcall.creds

(***************************************************************************)
(* Properties of the feishu_perm tool                                      *)
(***************************************************************************)
\* appId and appSecret are configured and the tools config turns perm on
PermEnabled(a) ==
  /\ a.present
  /\ a.appId # ""
  /\ a.appSecret # ""
  /\ "perm" \in DOMAIN a.tools
  /\ a.tools["perm"] = TRUE

KnownActions == {"list", "add", "remove"}

PermCall ==
  [list |-> "drive.permissionMember.list",
   add |-> "drive.permissionMember.create",
   remove |-> "drive.permissionMember.delete"]

\* the tool is registered at most once and only for an enabled configuration
RegisteredOnlyWhenEnabled ==
  /\ Len(tools) <= 1
  /\ tools # << >> => tools = <<"feishu_perm">> /\ PermEnabled(api) /\ regpc = "done"

\* the client could not be made, the request failed or the answer's code is not 0
ExecuteFailed ==
  fexec.clientThrew \/ fexec.response \in {"code", "reject"}

\* execute returns, with an { error } payload exactly on failure and for an
\* unknown action
ExecuteAlwaysReturns ==
  fexec.made =>
    /\ fexec.outcome = "returned"
    /\ fexec.error <=> (ExecuteFailed \/ fexec.action \notin KnownActions)

\* C26 as stated: feishu_perm is registered at most once and only when appId and
\* appSecret are configured and perm is enabled; execute never throws and returns
\* an { error } payload on every failure and for an unknown action; for list, add
\* and remove it performs exactly one permission API call.
PermToolCallsOnce ==
  /\ RegisteredOnlyWhenEnabled
  /\ ExecuteAlwaysReturns
  /\ fexec.made /\ fexec.action \in KnownActions => Len(fexec.calls) = 1

\* C26, amended: feishu_perm is registered at most once and only when appId and
\* appSecret are configured and perm is enabled; execute never throws and returns
\* an { error } payload on every failure and for an unknown action; for list, add
\* and remove it performs exactly one permission API call, the one of the action,
\* when createFeishuClient returned a client, and no call when it threw or the
\* action is unknown.
PermToolCallsOnceWithClient ==
  /\ RegisteredOnlyWhenEnabled
  /\ ExecuteAlwaysReturns
  /\ fexec.made =>
       IF fexec.action \in KnownActions /\ ~fexec.clientThrew
       THEN fexec.calls = <<PermCall[fexec.action]>>
       ELSE fexec.calls = << >>

\* the registered tool ran remove, the API answered with a non-zero code, and the
\* handler returned an { error } payload after its one call
PermToolCallsOnceWithClientWitness ==
  /\ tools = <<"feishu_perm">>
  /\ fexec.made
  /\ fexec.action = "remove"
  /\ ~fexec.clientThrew
  /\ fexec.response = "code"
  /\ fexec.outcome = "returned"
  /\ fexec.error
  /\ fexec.calls = <<"drive.permissionMember.delete">>

====
